---- MODULE Spec2Model ----
(***************************************************************************)
(* A model of the Markdown editor: the undo history of the Editor          *)
(* component (handleContentChange, its debounce timeout, handleUndo), the  *)
(* scroll synchroniser of App (handleScroll and its cooldown timeout) and  *)
(* the selection-aware text mutations of the Editor (insertText,           *)
(* insertList).                                                            *)
(*                                                                         *)
(* Strings are sequences of one-character strings; offsets are 0-based as  *)
(* in the source, so the entry at source index i is history[i + 1].        *)
(***************************************************************************)
EXTENDS Integers, Sequences, FiniteSets, TLC

VARIABLES
    \* ---- Editor: buffer and undo history
    value,            \* the `value` prop: the live buffer (App's `markdown`)
    history,          \* useState<string[]>([value])
    historyIndex,     \* useState(0)
    historyTimeout,   \* the timeout armed through historyTimeoutRef
    timers,           \* the closures of the timeouts pending in the window, oldest first
    \* ---- observation of the history component (not program state)
    lastEdit,         \* the argument of the most recent handleContentChange
    undoSince,        \* an effective undo has happened since that edit
    last,             \* the last handler that ran and the state it ran in
    win,              \* the current debounce window
    branch,           \* progress through "undo, type, commit, undo"
    \* ---- App: scroll synchronisation
    scrollTop,        \* pane -> scroll offset, a rational <<numerator, denominator>>
    scrollHeight,     \* pane -> scrollable extent
    clientHeight,     \* pane -> viewport extent
    isScrollingRef,   \* "editor", "preview" or "null"
    scrollTimeout,    \* (window as any).scrollTimeout
    scrollEvent,      \* pane -> the scroll event the browser has queued for it
    \* ---- observation of the synchroniser (not program state)
    slast,            \* the last synchroniser step and the state it ran in
    \* ---- Editor: the textarea and the toolbar's text mutations
    selectionStart,   \* textarea.selectionStart
    selectionEnd,     \* textarea.selectionEnd
    caretTask,        \* the setTimeout(..., 0) that restores focus and selection
    opCount,          \* toolbar mutations applied so far
    alertShown,       \* the message the last toolbar handler gave to alert(), or ""
    \* ---- observation of the mutations (not program state)
    tlast,            \* the last mutation, its arguments and the state it ran in
    \* ---- export (src/unnamed/part_001, src/App.tsx)
    preview,          \* the <img> elements of the rendered preview, in document order
    exports,          \* the calls of handleExport: format, position, locals, dialogs
    downloads,        \* the files handed to the browser to save, oldest first
    \* ---- AI actions (src/App.tsx, src/services/geminiService.ts)
    apiKey,           \* process.env.API_KEY || ''
    isProcessingAi,   \* useState(false)
    aiCall,           \* the call of generateAiContent that has not settled yet
    aiAlert,          \* the message handleAiAction gave to alert() last, or ""
    aiCount,          \* AI actions requested so far
    alast,            \* observation: the last step of an AI action and its pre-state
    \* ---- table of contents (src/App.tsx, src/unnamed/part_000)
    headers,          \* useState<{ id, text, level }[]>([]) once the effect has run
    hlast             \* observation: the last click on a header and what it found

histVars == <<value, history, historyIndex, historyTimeout, timers>>
obsVars == <<lastEdit, undoSince, last, win, branch>>
scrollVars == <<scrollTop, scrollHeight, clientHeight, isScrollingRef,
                scrollTimeout, scrollEvent>>
vars == <<value, history, historyIndex, historyTimeout, timers,
          lastEdit, undoSince, last, win, branch,
          scrollTop, scrollHeight, clientHeight, isScrollingRef,
          scrollTimeout, scrollEvent, slast,
          selectionStart, selectionEnd, caretTask, opCount, alertShown, tlast,
          preview, exports, downloads,
          apiKey, isProcessingAi, aiCall, aiAlert, aiCount, alast,
          headers, hlast>>

----------------------------------------------------------------------------
\* Bounds

\* The longest history the model lets a commit produce.
MaxHistory == 3

\* Buffers a keystroke or toolbar action may produce in the history model.
EditValues == {<<>>, <<"a">>, <<"b">>}

----------------------------------------------------------------------------
\* Helpers

Min(a, b) == IF a < b THEN a ELSE b

\* Array.prototype.slice(0, n) of a sequence.
Slice0(s, n) == SubSeq(s, 1, Min(n, Len(s)))

\* history[i] of the source (0-based).
Entry(i) == history[i + 1]

\* The two scrollable panes: the textarea and the rendered preview.
Panes == {"editor", "preview"}

Other(p) == IF p = "editor" THEN "preview" ELSE "editor"

\* The variables each component leaves alone.
historyAll == <<histVars, obsVars>>
scrollAll == <<scrollVars, slast>>
textAll == <<selectionStart, selectionEnd, caretTask, opCount, alertShown, tlast>>
exportAll == <<preview, exports, downloads>>
aiAll == <<apiKey, isProcessingAi, aiCall, aiAlert, aiCount, alast>>
headerAll == <<headers, hlast>>
notHistory == <<scrollAll, textAll, exportAll, aiAll, headerAll>>
notScroll == <<historyAll, textAll, exportAll, aiAll, headerAll>>
notExport == <<historyAll, scrollAll, textAll, aiAll, headerAll>>

----------------------------------------------------------------------------
\* Editor: history

NoTimeout == [armed |-> FALSE, newValue |-> <<>>, idx |-> 0]

\* The pending timeouts without the one historyTimeoutRef holds, which is the
\* newest when it is pending at all.
clearTimeout ==
    IF historyTimeout.armed THEN SubSeq(timers, 1, Len(timers) - 1) ELSE timers

\* handleContentChange with setTimeout alone, the earlier timeout left pending.
handleContentChangeWithoutClear(newValue) ==
    /\ value' = newValue
    /\ timers' = Append(timers, [newValue |-> newValue, idx |-> historyIndex])
    /\ historyTimeout' = [armed |-> TRUE, newValue |-> newValue, idx |-> historyIndex]
    /\ UNCHANGED <<history, historyIndex>>

\* handleContentChange debouncing on the leading edge: a pending timeout is left
\* as it is.
handleContentChangeKeepingTimeout(newValue) ==
    /\ value' = newValue
    /\ IF historyTimeout.armed
       THEN UNCHANGED <<timers, historyTimeout>>
       ELSE /\ timers' = Append(timers, [newValue |-> newValue, idx |-> historyIndex])
            /\ historyTimeout' = [armed |-> TRUE, newValue |-> newValue,
                                  idx |-> historyIndex]
    /\ UNCHANGED <<history, historyIndex>>

\* handleContentChange(newValue): onChange, clearTimeout, setTimeout(..., 800).
\* The timeout's closure holds newValue and the historyIndex of this render.
handleContentChange(newValue) ==
    /\ value' = newValue
    /\ timers' = Append(clearTimeout, [newValue |-> newValue, idx |-> historyIndex])
    /\ historyTimeout' = [armed |-> TRUE, newValue |-> newValue, idx |-> historyIndex]
    /\ UNCHANGED <<history, historyIndex>>

\* The callback with the captures exchanged: the slice taken at the index of
\* the time of firing, the new index computed from the captured one.
historyTimeoutCallbackIndexCaptured ==
    \E k \in 1..Len(timers) :
        /\ history' = Append(Slice0(history, historyIndex + 1), timers[k].newValue)
        /\ historyIndex' = timers[k].idx + 1
        /\ timers' = SubSeq(timers, 1, k - 1) \o SubSeq(timers, k + 1, Len(timers))
        /\ historyTimeout' = IF historyTimeout.armed /\ k = Len(timers)
                              THEN NoTimeout ELSE historyTimeout
        /\ UNCHANGED value

\* The callback given to setTimeout in handleContentChange, run for one of the
\* pending timeouts.
historyTimeoutCallback ==
    \E k \in 1..Len(timers) :
        /\ history' = Append(Slice0(history, timers[k].idx + 1), timers[k].newValue)
        /\ historyIndex' = historyIndex + 1
        /\ timers' = SubSeq(timers, 1, k - 1) \o SubSeq(timers, k + 1, Len(timers))
        /\ historyTimeout' = IF historyTimeout.armed /\ k = Len(timers)
                              THEN NoTimeout ELSE historyTimeout
        /\ UNCHANGED value

\* handleUndo written through the edit path: the restored text is pushed through
\* handleContentChange, which arms the debounce timeout.
handleUndoThroughEditPath ==
    IF historyIndex > 0
    THEN /\ historyIndex' = historyIndex - 1
         /\ value' = Entry(historyIndex - 1)
         /\ timers' = Append(clearTimeout, [newValue |-> Entry(historyIndex - 1),
                                             idx |-> historyIndex])
         /\ historyTimeout' = [armed |-> TRUE, newValue |-> Entry(historyIndex - 1),
                               idx |-> historyIndex]
         /\ UNCHANGED history
    ELSE UNCHANGED <<value, history, historyIndex, historyTimeout, timers>>

\* handleUndo with the index clamped instead of guarded: at index 0 it shows
\* entry 0 again.
handleUndoClamped ==
    LET newIndex == IF historyIndex > 0 THEN historyIndex - 1 ELSE 0
    IN  /\ historyIndex' = newIndex
        /\ value' = Entry(newIndex)
        /\ UNCHANGED <<history, historyTimeout, timers>>

\* handleUndo()
handleUndo ==
    IF historyIndex > 0
    THEN /\ historyIndex' = historyIndex - 1
         /\ value' = Entry(historyIndex - 1)
         /\ UNCHANGED <<history, historyTimeout, timers>>
    ELSE UNCHANGED <<value, history, historyIndex, historyTimeout, timers>>

----------------------------------------------------------------------------
\* Observation of the history component

Snapshot == [value |-> value, history |-> history,
             historyIndex |-> historyIndex, historyTimeout |-> historyTimeout]

NoWindow == [n |-> 0, pre |-> <<>>, stage |-> "none"]
NoBranch == [stage |-> "none", E |-> <<>>, F |-> <<>>, iE |-> 0, kept |-> <<>>]

\* The most edits a window counts; more are counted as MaxBurst.
MaxBurst == 4

ObserveEdit(newValue) ==
    /\ lastEdit' = newValue
    /\ undoSince' = FALSE
    /\ last' = [act |-> "edit", pre |-> Snapshot]
    /\ win' = IF ~historyTimeout.armed
              THEN [n |-> 1, pre |-> value, stage |-> "open"]
              ELSE IF win.stage = "open"
                   THEN [win EXCEPT !.n = Min(win.n + 1, MaxBurst)]
                   ELSE [win EXCEPT !.stage = "void"]
    /\ branch' = IF branch.stage \in {"undone", "typed"}
                 THEN [branch EXCEPT !.stage = "typed"]
                 ELSE NoBranch

ObserveCommit ==
    /\ UNCHANGED <<lastEdit, undoSince>>
    /\ last' = [act |-> "commit", pre |-> Snapshot]
    /\ win' = IF win.stage = "open"
              THEN [win EXCEPT !.stage = "committed"]
              ELSE [win EXCEPT !.stage = "void"]
    /\ branch' = IF branch.stage = "typed"
                 THEN [branch EXCEPT !.stage = "committed"]
                 ELSE branch

ObserveUndo ==
    /\ UNCHANGED lastEdit
    /\ undoSince' = (undoSince \/ historyIndex > 0)
    /\ last' = [act |-> "undo", pre |-> Snapshot]
    /\ win' = IF historyIndex = 0 THEN win
              ELSE IF win.stage = "committed"
                   THEN [win EXCEPT !.stage = "undone"]
                   ELSE [win EXCEPT !.stage = "void"]
    /\ branch' = IF historyIndex = 0 THEN branch
                 ELSE IF branch.stage = "committed"
                      THEN [branch EXCEPT !.stage = "reundone"]
                 ELSE IF branch.stage \in {"reundone", "later"}
                      THEN [branch EXCEPT !.stage = "later"]
                 ELSE [stage |-> "undone",
                       E |-> Entry(historyIndex - 1),
                       F |-> Entry(historyIndex),
                       iE |-> historyIndex - 1,
                       kept |-> SubSeq(history, 1, historyIndex)]

HistoryAtRest ==
    /\ value = <<>>
    /\ history = <<value>>
    /\ historyIndex = 0
    /\ historyTimeout = NoTimeout
    /\ timers = <<>>
    /\ lastEdit = value
    /\ undoSince = FALSE
    /\ last = [act |-> "init", pre |-> Snapshot]
    /\ win = NoWindow
    /\ branch = NoBranch

----------------------------------------------------------------------------
\* Editor: strings

\* String.prototype.substring(a, b), for 0 <= a <= b.
substring(str, a, b) == SubSeq(str, a + 1, Min(b, Len(str)))

\* String.prototype.indexOf(ch): the 0-based offset of the first ch, or -1.
indexOf(str, ch) ==
    IF \E i \in 1..Len(str) : str[i] = ch
    THEN (CHOOSE i \in 1..Len(str) :
              str[i] = ch /\ \A j \in 1..(i - 1) : str[j] # ch) - 1
    ELSE -1

\* String.prototype.lastIndexOf(ch): the 0-based offset of the last ch, or -1.
lastIndexOf(str, ch) ==
    IF \E i \in 1..Len(str) : str[i] = ch
    THEN (CHOOSE i \in 1..Len(str) :
              str[i] = ch /\ \A j \in (i + 1)..Len(str) : str[j] # ch) - 1
    ELSE -1

\* String.prototype.split('\n')
RECURSIVE split(_)
split(str) ==
    LET i == indexOf(str, "\n")
    IN  IF i = -1 THEN <<str>>
        ELSE <<substring(str, 0, i)>> \o split(substring(str, i + 1, Len(str)))

\* Array.prototype.join('\n')
RECURSIVE join(_)
join(lines) ==
    IF Len(lines) = 0 THEN <<>>
    ELSE IF Len(lines) = 1 THEN lines[1]
    ELSE lines[1] \o <<"\n">> \o join(Tail(lines))

Digits == <<"0", "1", "2", "3", "4", "5", "6", "7", "8", "9">>

\* The characters \d matches.
IsDigit(ch) == \E i \in 1..10 : Digits[i] = ch

\* The characters \s matches, among those a buffer of the model can hold.
IsSpace(ch) == ch \in {" ", "\t", "\n", "\r"}

\* String(n) for n >= 0.
RECURSIVE toString(_)
toString(n) ==
    IF n < 10 THEN <<Digits[n + 1]>>
    ELSE toString(n \div 10) \o <<Digits[(n % 10) + 1]>>

\* The length of the longest prefix of str, from offset k on, whose characters
\* all satisfy the test (a greedy \d+ or \s+ run).
RECURSIVE digitRun(_, _)
digitRun(str, k) ==
    IF k < Len(str) /\ IsDigit(str[k + 1]) THEN 1 + digitRun(str, k + 1) ELSE 0

RECURSIVE spaceRun(_, _)
spaceRun(str, k) ==
    IF k < Len(str) /\ IsSpace(str[k + 1]) THEN 1 + spaceRun(str, k + 1) ELSE 0

\* The length of what /^(\d+\.|-|\*)/ matches at the start of line, 0 if nothing.
markerLength(line) ==
    LET d == digitRun(line, 0)
    IN  IF d > 0 /\ d < Len(line) /\ line[d + 1] = "."
        THEN d + 1
        ELSE IF Len(line) > 0 /\ line[1] \in {"-", "*"} THEN 1 ELSE 0

\* line.replace(/^(\d+\.|-|\*)\s+/, '')
cleanLine(line) ==
    LET m == markerLength(line)
        w == spaceRun(line, m)
    IN  IF m > 0 /\ w > 0 THEN substring(line, m + w, Len(line)) ELSE line

----------------------------------------------------------------------------
\* Editor: insertText and insertList

NoCaretTask == [pending |-> FALSE, pos |-> 0]

\* insertText's newText with value.substring(start) as its last part.
newTextFromStart(str, start, end, before, after) ==
    substring(str, 0, start) \o before \o substring(str, start, end) \o after
        \o substring(str, start, Len(str))

\* insertText: newText
newText(str, start, end, before, after) ==
    substring(str, 0, start) \o before \o substring(str, start, end) \o after
        \o substring(str, end, Len(str))

\* insertText's caret with the two branches of its test exchanged.
insertTextCaretSwapped(start, end, before, after) ==
    IF start = end
    THEN start + Len(before) + (end - start) + Len(after)
    ELSE start + Len(before)

\* insertText: the offset given to setSelectionRange.
insertTextCaret(start, end, before, after) ==
    IF start = end
    THEN start + Len(before)
    ELSE start + Len(before) + (end - start) + Len(after)

\* insertText(before, after). The re-render with the new value leaves the
\* textarea's caret at the end of the text until the timeout restores it.
insertText(before, after) ==
    LET start == selectionStart
        end == selectionEnd
        text == newText(value, start, end, before, after)
    IN  /\ handleContentChange(text)
        /\ selectionStart' = Len(text)
        /\ selectionEnd' = Len(text)
        /\ caretTask' = [pending |-> TRUE,
                         pos |-> insertTextCaret(start, end, before, after)]

\* insertList: lineStart
lineStart(str, start) == lastIndexOf(substring(str, 0, start), "\n") + 1

\* insertList's lineEnd running to the end of the buffer.
lineEndOfBuffer(str, end) == Len(str)

\* insertList: lineEnd
lineEnd(str, end) ==
    LET textAfter == substring(str, end, Len(str))
    IN  IF indexOf(textAfter, "\n") = -1 THEN Len(str)
        ELSE end + indexOf(textAfter, "\n")

\* insertList's currentPrefix numbering from index instead of index + 1.
currentPrefixFromZero(index, prefix, isOrdered) ==
    IF isOrdered THEN toString(index) \o <<".", " ">> ELSE prefix

\* insertList: currentPrefix for the line at 0-based index.
currentPrefix(index, prefix, isOrdered) ==
    IF isOrdered THEN toString(index + 1) \o <<".", " ">> ELSE prefix

\* insertList: newBlock
newBlock(str, start, end, prefix, isOrdered) ==
    LET lines == split(substring(str, lineStart(str, start), lineEnd(str, end)))
    IN  join([i \in 1..Len(lines) |->
                 currentPrefix(i - 1, prefix, isOrdered) \o cleanLine(lines[i])])

\* insertList(prefix, isOrdered)
insertList(prefix, isOrdered) ==
    LET ls == lineStart(value, selectionStart)
        le == lineEnd(value, selectionEnd)
        block == newBlock(value, selectionStart, selectionEnd, prefix, isOrdered)
        text == substring(value, 0, ls) \o block \o substring(value, le, Len(value))
    IN  /\ handleContentChange(text)
        /\ selectionStart' = Len(text)
        /\ selectionEnd' = Len(text)
        /\ caretTask' = [pending |-> TRUE, pos |-> ls + Len(block)]

\* The callback given to setTimeout(..., 0): textarea.setSelectionRange(pos, pos),
\* which the browser clamps to the length of the text.
caretTaskCallback ==
    /\ caretTask.pending
    /\ selectionStart' = Min(caretTask.pos, Len(value))
    /\ selectionEnd' = Min(caretTask.pos, Len(value))
    /\ caretTask' = NoCaretTask
    /\ UNCHANGED histVars

----------------------------------------------------------------------------
\* Editor: JSON.parse and JSON.stringify(parsed, null, 2)
\*
\* The texts of the model hold no backslash, no fraction and no exponent, so a
\* JSON string is a quoted run of plain characters and a JSON number is an integer.

\* String.prototype.trim(), for the white space a buffer of the model can hold.
RECURSIVE trim(_)
trim(str) ==
    IF Len(str) > 0 /\ IsSpace(str[1]) THEN trim(Tail(str))
    ELSE IF Len(str) > 0 /\ IsSpace(str[Len(str)]) THEN trim(SubSeq(str, 1, Len(str) - 1))
    ELSE str

\* The offset of the first character at or after k that is not JSON white space.
skipWs(str, k) == k + spaceRun(str, k)

\* What a failed parse returns: JSON.parse throws a SyntaxError.
SyntaxError == [ok |-> FALSE, val |-> [t |-> "none"], pos |-> 0]

Parsed(val, pos) == [ok |-> TRUE, val |-> val, pos |-> pos]

\* The literal names true, false and null at offset k.
parseLiteral(str, k) ==
    LET names == {<<"t", "r", "u", "e">>, <<"f", "a", "l", "s", "e">>,
                  <<"n", "u", "l", "l">>}
        found == {n \in names : substring(str, k, k + Len(n)) = n}
    IN  IF found = {} THEN SyntaxError
        ELSE LET n == CHOOSE n \in found : TRUE
             IN  Parsed([t |-> "literal", s |-> n], k + Len(n))

\* An integer at offset k: -? (0 | [1-9][0-9]*). Serialised again, -0 is "0".
parseNumber(str, k) ==
    LET neg == k < Len(str) /\ str[k + 1] = "-"
        from == IF neg THEN k + 1 ELSE k
        d == digitRun(str, from)
        digits == substring(str, from, from + d)
    IN  IF d = 0 \/ (d > 1 /\ digits[1] = "0") THEN SyntaxError
        ELSE Parsed([t |-> "number",
                     s |-> IF neg /\ digits # <<"0">> THEN <<"-">> \o digits ELSE digits],
                    from + d)

\* The length of the run of characters a JSON string may hold unescaped, from k.
RECURSIVE plainRun(_, _)
plainRun(str, k) ==
    IF k < Len(str) /\ str[k + 1] \notin {"\"", "\\", "\n", "\t", "\r"}
    THEN 1 + plainRun(str, k + 1) ELSE 0

\* A string at offset k, where str[k] is the opening quote.
parseString(str, k) ==
    LET n == plainRun(str, k + 1)
    IN  IF k + 1 + n < Len(str) /\ str[k + n + 2] = "\""
        THEN Parsed([t |-> "string", s |-> substring(str, k + 1, k + 1 + n)], k + n + 2)
        ELSE SyntaxError

RECURSIVE parseValue(_, _), parseElements(_, _, _), parseMembers(_, _, _)

\* A value at offset k, which is not white space.
parseValue(str, k) ==
    IF k >= Len(str) THEN SyntaxError
    ELSE LET c == str[k + 1]
         IN  IF c = "{" THEN parseMembers(str, skipWs(str, k + 1), <<>>)
             ELSE IF c = "[" THEN parseElements(str, skipWs(str, k + 1), <<>>)
             ELSE IF c = "\"" THEN parseString(str, k)
             ELSE IF c = "-" \/ IsDigit(c) THEN parseNumber(str, k)
             ELSE parseLiteral(str, k)

\* The rest of an array after "[" or ",": acc holds the elements read so far.
parseElements(str, k, acc) ==
    IF acc = <<>> /\ k < Len(str) /\ str[k + 1] = "]"
    THEN Parsed([t |-> "array", items |-> <<>>], k + 1)
    ELSE LET v == parseValue(str, k)
             j == skipWs(str, v.pos)
         IN  IF ~v.ok \/ j >= Len(str) THEN SyntaxError
             ELSE IF str[j + 1] = ","
             THEN parseElements(str, skipWs(str, j + 1), Append(acc, v.val))
             ELSE IF str[j + 1] = "]"
             THEN Parsed([t |-> "array", items |-> Append(acc, v.val)], j + 1)
             ELSE SyntaxError

\* The rest of an object after "{" or ",": acc holds the members read so far.
parseMembers(str, k, acc) ==
    IF acc = <<>> /\ k < Len(str) /\ str[k + 1] = "}"
    THEN Parsed([t |-> "object", members |-> <<>>], k + 1)
    ELSE IF k >= Len(str) \/ str[k + 1] # "\"" THEN SyntaxError
    ELSE LET key == parseString(str, k)
             colon == skipWs(str, key.pos)
         IN  IF ~key.ok \/ colon >= Len(str) \/ str[colon + 1] # ":" THEN SyntaxError
             ELSE LET v == parseValue(str, skipWs(str, colon + 1))
                      j == skipWs(str, v.pos)
                      all == Append(acc, [key |-> key.val.s, val |-> v.val])
                  IN  IF ~v.ok \/ j >= Len(str) THEN SyntaxError
                      ELSE IF str[j + 1] = ","
                      THEN parseMembers(str, skipWs(str, j + 1), all)
                      ELSE IF str[j + 1] = "}"
                      THEN Parsed([t |-> "object", members |-> all], j + 1)
                      ELSE SyntaxError

\* JSON.parse(str): one value with white space around it and nothing else.
JSONparse(str) ==
    LET v == parseValue(str, skipWs(str, 0))
    IN  IF v.ok /\ skipWs(str, v.pos) = Len(str) THEN v ELSE SyntaxError

\* The number a run of digits denotes.
RECURSIVE toNumber(_)
toNumber(digits) ==
    IF Len(digits) = 0 THEN 0
    ELSE 10 * toNumber(SubSeq(digits, 1, Len(digits) - 1))
            + (CHOOSE n \in 0..9 : Digits[n + 1] = digits[Len(digits)])

\* An array index as a property key: a canonical integer below 2^32 - 1. Every
\* key of up to nine digits is one; no buffer of the model holds a longer one.
IsIndexKey(key) ==
    /\ Len(key) \in 1..9
    /\ \A i \in 1..Len(key) : IsDigit(key[i])
    /\ Len(key) = 1 \/ key[1] # "0"

\* The members in ascending order of their index keys.
RECURSIVE sortByIndex(_)
sortByIndex(members) ==
    IF Len(members) = 0 THEN <<>>
    ELSE LET m == CHOOSE i \in 1..Len(members) :
                      \A j \in 1..Len(members) :
                          toNumber(members[i].key) <= toNumber(members[j].key)
         IN  <<members[m]>>
                \o sortByIndex(SubSeq(members, 1, m - 1)
                                 \o SubSeq(members, m + 1, Len(members)))

\* The own properties of the object JSON.parse builds from members: a repeated
\* key keeps its first place and its last value, and the keys are enumerated
\* index keys first, in ascending order, then the others in order of creation.
ownProperties(members) ==
    LET firsts == SelectSeq([i \in 1..Len(members) |-> i],
                            LAMBDA i : \A j \in 1..(i - 1) :
                                           members[j].key # members[i].key)
        lastOf(i) == CHOOSE j \in i..Len(members) :
                         /\ members[j].key = members[i].key
                         /\ \A k \in (j + 1)..Len(members) :
                                members[k].key # members[i].key
        props == [n \in 1..Len(firsts) |->
                     [key |-> members[firsts[n]].key,
                      val |-> members[lastOf(firsts[n])].val]]
    IN  sortByIndex(SelectSeq(props, LAMBDA p : IsIndexKey(p.key)))
            \o SelectSeq(props, LAMBDA p : ~IsIndexKey(p.key))

\* n spaces.
spaces(n) == [i \in 1..n |-> " "]

\* The concatenation of parts with sep between them.
RECURSIVE joinWith(_, _)
joinWith(parts, sep) ==
    IF Len(parts) = 0 THEN <<>>
    ELSE IF Len(parts) = 1 THEN parts[1]
    ELSE parts[1] \o sep \o joinWith(Tail(parts), sep)

\* JSON.stringify(val, null, 2) of a value nested depth levels deep.
RECURSIVE stringify(_, _)
stringify(val, depth) ==
    LET inner == <<"\n">> \o spaces(2 * (depth + 1))
        outer == <<"\n">> \o spaces(2 * depth)
    IN  IF val.t = "string" THEN <<"\"">> \o val.s \o <<"\"">>
        ELSE IF val.t = "array"
        THEN IF val.items = <<>> THEN <<"[", "]">>
             ELSE <<"[">> \o inner
                    \o joinWith([i \in 1..Len(val.items) |->
                                    stringify(val.items[i], depth + 1)],
                                <<",">> \o inner)
                    \o outer \o <<"]">>
        ELSE IF val.t = "object"
        THEN IF val.members = <<>> THEN <<"{", "}">>
             ELSE LET props == ownProperties(val.members)
                  IN  <<"{">> \o inner
                         \o joinWith([i \in 1..Len(props) |->
                                         <<"\"">> \o props[i].key \o <<"\"", ":", " ">>
                                            \o stringify(props[i].val, depth + 1)],
                                     <<",">> \o inner)
                         \o outer \o <<"}">>
        ELSE val.s

\* JSON.stringify(parsed, null, 2)
JSONstringify(val) == stringify(val, 0)

----------------------------------------------------------------------------
\* Editor: formatJSON, formatMarkdownTable and beautifyMarkdown

\* A toolbar handler that returns after alert(message), or without a word when
\* message is "".
returnWith(message) ==
    /\ alertShown' = message
    /\ UNCHANGED <<histVars, selectionStart, selectionEnd, caretTask>>

\* formatJSON whose catch branch inserts the selected text as it is.
formatJSONInsertsUnparsed ==
    LET selectedText == substring(value, selectionStart, selectionEnd)
        parsed == JSONparse(selectedText)
    IN  IF trim(selectedText) = <<>>
        THEN returnWith("Please select some JSON text to format.")
        ELSE /\ insertText(IF parsed.ok THEN JSONstringify(parsed.val) ELSE selectedText,
                           <<>>)
             /\ alertShown' = IF parsed.ok THEN "" ELSE "Invalid JSON selection."

\* formatJSON()
formatJSON ==
    LET selectedText == substring(value, selectionStart, selectionEnd)
        parsed == JSONparse(selectedText)
    IN  IF trim(selectedText) = <<>>
        THEN returnWith("Please select some JSON text to format.")
        ELSE IF parsed.ok
        THEN /\ insertText(JSONstringify(parsed.val), <<>>)
             /\ alertShown' = ""
        ELSE returnWith("Invalid JSON selection.")

\* String.prototype.split(ch)
RECURSIVE splitBy(_, _)
splitBy(str, ch) ==
    LET i == indexOf(str, ch)
    IN  IF i = -1 THEN <<str>>
        ELSE <<substring(str, 0, i)>>
                \o splitBy(substring(str, i + 1, Len(str)), ch)

\* formatMarkdownTable: parseRow, with <<>> for the null of a line that has
\* fewer than three parts and the cells in a one-element tuple otherwise.
parseRow(line) ==
    LET parts == splitBy(line, "|")
    IN  IF Len(parts) < 3 THEN <<>>
        ELSE <<[i \in 1..(Len(parts) - 2) |-> trim(parts[i + 1])]>>

\* formatMarkdownTable: parsedRows
parsedRows(lines) ==
    LET kept == SelectSeq([i \in 1..Len(lines) |-> parseRow(lines[i])],
                          LAMBDA r : r # <<>>)
    IN  [i \in 1..Len(kept) |-> kept[i][1]]

\* Math.max over a non-empty set of lengths.
Max(S) == CHOOSE m \in S : \A n \in S : n <= m

\* formatMarkdownTable: colWidths, one for each cell of the first parsed row.
colWidths(rows) ==
    [c \in 1..Len(rows[1]) |->
        Max({IF c <= Len(rows[r]) THEN Len(rows[r][c]) ELSE 0 : r \in 1..Len(rows)})]

\* cell.match(/^-+$/)
IsSeparator(cell) == Len(cell) > 0 /\ \A i \in 1..Len(cell) : cell[i] = "-"

\* String.prototype.padEnd(width, ' ')
padEnd(str, width) ==
    IF width > Len(str) THEN str \o spaces(width - Len(str)) ELSE str

\* formatMarkdownTable's cell with a separator cell copied as it is.
formatCellKeepsSeparator(cell, c, widths) ==
    LET width == IF c <= Len(widths) THEN widths[c] ELSE 0
    IN  IF IsSeparator(cell) THEN cell ELSE padEnd(cell, width)

\* formatMarkdownTable: the cell of column c. Past the first row's cells the
\* width is undefined, which repeat and padEnd take as 0.
formatCell(cell, c, widths) ==
    LET width == IF c <= Len(widths) THEN widths[c] ELSE 0
    IN  IF IsSeparator(cell) THEN [i \in 1..width |-> "-"] ELSE padEnd(cell, width)

\* formatMarkdownTable: formattedLines.join('\n')
formattedTable(rows) ==
    LET widths == colWidths(rows)
    IN  join([r \in 1..Len(rows) |->
                 <<"|", " ">>
                    \o joinWith([c \in 1..Len(rows[r]) |-> formatCell(rows[r][c], c, widths)],
                                <<" ", "|", " ">>)
                    \o <<" ", "|">>])

\* formatMarkdownTable()
formatMarkdownTable ==
    LET selectedText == substring(value, selectionStart, selectionEnd)
        rows == parsedRows(split(trim(selectedText)))
    IN  IF trim(selectedText) = <<>> \/ indexOf(selectedText, "|") = -1
        THEN returnWith("Please select a Markdown table (including pipes |) to format.")
        ELSE IF Len(rows) = 0 THEN returnWith("")
        ELSE /\ insertText(formattedTable(rows), <<>>)
             /\ alertShown' = ""

\* The length of the run of ch in str from offset k on.
RECURSIVE runOf(_, _, _)
runOf(str, k, ch) ==
    IF k < Len(str) /\ str[k + 1] = ch THEN 1 + runOf(str, k + 1, ch) ELSE 0

\* Where the group after (^|\n) starts for a match attempted at offset i: at 0
\* when `^` matches there and the first character is one of first, after the
\* "\n" at i otherwise, and -1 when neither alternative leads to a match.
afterLineStart(str, i, first) ==
    IF i = 0 /\ str[1] \in first THEN 0
    ELSE IF str[i + 1] = "\n" THEN i + 1
    ELSE -1

\* clean.replace(/(^|\n)(#{1,6})([^\s#])/g, '$1$2 $3'), from offset i on.
RECURSIVE fixHeaders(_, _)
fixHeaders(str, i) ==
    IF i >= Len(str) THEN <<>>
    ELSE LET h == afterLineStart(str, i, {"#"})
             r == IF h = -1 THEN 0 ELSE runOf(str, h, "#")
         IN  IF r \in 1..6 /\ h + r < Len(str) /\ ~IsSpace(str[h + r + 1])
             THEN substring(str, i, h + r) \o <<" ", str[h + r + 1]>>
                     \o fixHeaders(str, h + r + 1)
             ELSE <<str[i + 1]>> \o fixHeaders(str, i + 1)

\* The list pass putting its space before the marker.
RECURSIVE fixListsSpaceFirst(_, _)
fixListsSpaceFirst(str, i) ==
    IF i >= Len(str) THEN <<>>
    ELSE LET h == afterLineStart(str, i, {"-", "*"})
         IN  IF h # -1 /\ h + 1 < Len(str) /\ str[h + 1] \in {"-", "*"}
                /\ ~IsSpace(str[h + 2])
             THEN substring(str, i, h) \o <<" ", str[h + 1], str[h + 2]>>
                     \o fixListsSpaceFirst(str, h + 2)
             ELSE <<str[i + 1]>> \o fixListsSpaceFirst(str, i + 1)

\* clean.replace(/(^|\n)([-*])([^\s])/g, '$1$2 $3'), from offset i on.
RECURSIVE fixLists(_, _)
fixLists(str, i) ==
    IF i >= Len(str) THEN <<>>
    ELSE LET h == afterLineStart(str, i, {"-", "*"})
         IN  IF h # -1 /\ h + 1 < Len(str) /\ str[h + 1] \in {"-", "*"}
                /\ ~IsSpace(str[h + 2])
             THEN substring(str, i, h + 1) \o <<" ", str[h + 2]>>
                     \o fixLists(str, h + 2)
             ELSE <<str[i + 1]>> \o fixLists(str, i + 1)

\* The newline pass taking one "\n" out of a run of three or more.
RECURSIVE collapseNewlinesByOne(_, _)
collapseNewlinesByOne(str, i) ==
    IF i >= Len(str) THEN <<>>
    ELSE LET r == runOf(str, i, "\n")
         IN  IF r >= 3
             THEN [k \in 1..(r - 1) |-> "\n"] \o collapseNewlinesByOne(str, i + r)
             ELSE <<str[i + 1]>> \o collapseNewlinesByOne(str, i + 1)

\* clean.replace(/\n{3,}/g, '\n\n'), from offset i on.
RECURSIVE collapseNewlines(_, _)
collapseNewlines(str, i) ==
    IF i >= Len(str) THEN <<>>
    ELSE LET r == runOf(str, i, "\n")
         IN  IF r >= 3
             THEN <<"\n", "\n">> \o collapseNewlines(str, i + r)
             ELSE <<str[i + 1]>> \o collapseNewlines(str, i + 1)

\* beautifyMarkdown: clean
clean(str) == collapseNewlines(fixLists(fixHeaders(str, 0), 0), 0)

\* beautifyMarkdown(). The textarea re-rendered with another value has its
\* caret at the end; with the same value the selection stays.
beautifyMarkdown ==
    /\ handleContentChange(clean(value))
    /\ selectionStart' = IF clean(value) = value THEN selectionStart ELSE Len(clean(value))
    /\ selectionEnd' = IF clean(value) = value THEN selectionEnd ELSE Len(clean(value))
    /\ alertShown' = ""
    /\ UNCHANGED caretTask

----------------------------------------------------------------------------
\* App: scroll synchronisation (handleScroll)
\*
\* Offsets are exact rationals <<n, d>> in lowest terms: the source computes
\* scrollTop / range * otherRange in floating point, which the model follows
\* without rounding. A division by zero gives NonFinite (NaN or Infinity), and
\* the browser stores a non-finite scrollTop as 0.

\* Ticks of the cooldown (the setTimeout of 100 ms) in model time.
CooldownTicks == 2

\* A user scroll lands on one of the ScrollSteps + 1 evenly spaced integer offsets.
ScrollSteps == 4

RECURSIVE GCD(_, _)
GCD(a, b) == IF b = 0 THEN a ELSE GCD(b, a % b)

Rat(n, d) == LET g == GCD(n, d) IN <<n \div g, d \div g>>

NonFinite == "NonFinite"

\* x / k for a rational x and an integer k >= 0.
RatDiv(x, k) == IF k = 0 THEN NonFinite ELSE Rat(x[1], x[2] * k)

\* x * k for a rational or non-finite x and an integer k >= 0.
RatMul(x, k) == IF x = NonFinite THEN NonFinite ELSE Rat(x[1] * k, x[2])

RatLeq(x, y) == x[1] * y[2] <= y[1] * x[2]

\* element.scrollHeight - element.clientHeight
ScrollRange(p) == scrollHeight[p] - clientHeight[p]

\* What the browser stores when y is assigned to scrollTop of a pane with the
\* given range: a non-finite y as 0, any other y clamped to [0, range].
StoredScrollTop(y, range) ==
    IF y = NonFinite THEN <<0, 1>>
    ELSE IF RatLeq(<<range, 1>>, y) THEN <<range, 1>>
    ELSE y

\* targetScrollTop with the source's own range in its second line.
targetScrollTopOwnRange(top, range, otherRange) == RatMul(RatDiv(top, range), range)

\* The offset handleScroll writes to the other pane for a source pane at offset
\* top: percentage = top / range; targetScrollTop = percentage * otherRange.
targetScrollTop(top, range, otherRange) == RatMul(RatDiv(top, range), otherRange)

NoScrollTimeout == [armed |-> FALSE, left |-> 0]

\* handleScroll(source) that does not test isScrollingRef.
handleScrollUnguarded(source) ==
    LET other == Other(source)
        stored == StoredScrollTop(
                      targetScrollTop(scrollTop[source], ScrollRange(source),
                                      ScrollRange(other)),
                      ScrollRange(other))
    IN  /\ isScrollingRef' = source
        /\ scrollTimeout' = [armed |-> TRUE, left |-> CooldownTicks]
        /\ scrollTop' = [scrollTop EXCEPT ![other] = stored]
        /\ scrollEvent' = [scrollEvent EXCEPT
                             ![source] = "none",
                             ![other] = IF stored # scrollTop[other] /\ @ = "none"
                                        THEN "echo" ELSE @]
        /\ UNCHANGED <<scrollHeight, clientHeight>>

\* handleScroll(source), run for the scroll event queued on pane source.
handleScroll(source) ==
    IF isScrollingRef # "null" /\ isScrollingRef # source
    THEN \* the early return
         /\ scrollEvent' = [scrollEvent EXCEPT ![source] = "none"]
         /\ UNCHANGED <<scrollTop, scrollHeight, clientHeight, isScrollingRef,
                        scrollTimeout>>
    ELSE LET other == Other(source)
             stored == StoredScrollTop(
                           targetScrollTop(scrollTop[source], ScrollRange(source),
                                           ScrollRange(other)),
                           ScrollRange(other))
         IN  /\ isScrollingRef' = source
             /\ scrollTimeout' = [armed |-> TRUE, left |-> CooldownTicks]
             /\ scrollTop' = [scrollTop EXCEPT ![other] = stored]
             \* the browser queues a scroll event on a pane whose offset changed
             /\ scrollEvent' = [scrollEvent EXCEPT
                                  ![source] = "none",
                                  ![other] = IF stored # scrollTop[other] /\ @ = "none"
                                             THEN "echo" ELSE @]
             /\ UNCHANGED <<scrollHeight, clientHeight>>

\* The callback given to setTimeout in handleScroll with the release left out.
scrollTimeoutCallbackKeepingLock ==
    /\ scrollTimeout.armed
    /\ scrollTimeout.left = 0
    /\ scrollTimeout' = NoScrollTimeout
    /\ UNCHANGED <<scrollTop, scrollHeight, clientHeight, scrollEvent, isScrollingRef>>

\* The callback given to setTimeout in handleScroll.
scrollTimeoutCallback ==
    /\ scrollTimeout.armed
    /\ scrollTimeout.left = 0
    /\ isScrollingRef' = "null"
    /\ scrollTimeout' = NoScrollTimeout
    /\ UNCHANGED <<scrollTop, scrollHeight, clientHeight, scrollEvent>>

----------------------------------------------------------------------------
\* Export: downloadHtml, downloadImage, downloadPdf and App's handleExport
\*
\* An export is an async function: it runs from one await to the next in one
\* step, and what it awaits settles in a later step, with either outcome. The
\* preview is mounted in every view mode, so previewRef.current and
\* document.getElementById('markdown-preview') are never null.

\* Standard A4 width and height in mm.
a4WidthMm == 210
a4HeightMm == 297

\* An <img> whose src is the object URL ("blob"), the remote URL ("https") or
\* the data URL ("data") of picture id.
Img(scheme, id) == [scheme |-> scheme, id |-> id]

NoRaster == [width |-> 0, height |-> 0]

\* handleExport(format) at its first statement. live and buffer keep the
\* preview and the document the export was requested on.
NewExport(format) ==
    [format |-> format, pc |-> "start", clone |-> <<>>, i |-> 0,
     raster |-> NoRaster, failure |-> "none", failed |-> {},
     alerted |-> FALSE, offered |-> FALSE, accepted |-> FALSE, printed |-> FALSE,
     live |-> preview, buffer |-> value]

\* The file a click on a download link saves: filename.html with the markup of
\* the clone, filename.png, or filename.pdf with its pages and placed image.
File(k, kind, images, pages, image) ==
    [export |-> k, kind |-> kind, images |-> images, pages |-> pages, image |-> image]

NoPlacement == [x |-> 0, y |-> 0, width |-> <<0, 1>>, height |-> <<0, 1>>]

\* An export and the files it saves in one synchronous run.
Ran(t, files) == [task |-> t, files |-> files]

\* downloadHtml's loop from index i on: on to the next image with a blob: URL
\* and its fetch, or past the last image to the download of the document.
htmlLoop(k, t, i) ==
    LET blobs == {j \in i..(Len(t.clone) - 1) : t.clone[j + 1].scheme = "blob"}
    IN  IF blobs = {}
        THEN Ran([t EXCEPT !.pc = "done", !.i = Len(t.clone)],
                 <<File(k, "html", t.clone, <<>>, NoPlacement)>>)
        ELSE Ran([t EXCEPT !.pc = "fetch",
                           !.i = CHOOSE j \in blobs : \A m \in blobs : j <= m],
                 <<>>)

\* The loop's catch block leaving the function, so that no document is saved.
caughtInLoopReturns(k, t) == Ran([t EXCEPT !.pc = "done", !.failed = @ \cup {t.i}], <<>>)

\* downloadHtml: the catch block of the loop, console.warn, and the loop goes on.
caughtInLoop(k, t) == htmlLoop(k, [t EXCEPT !.failed = @ \cup {t.i}], t.i + 1)

\* downloadHtml up to its first await.
downloadHtml(k, t) == htmlLoop(k, [t EXCEPT !.clone = preview], 0)

\* downloadHtml: fetch(img.src), response.blob() or blobToBase64(blob) settles.
awaitInLoop(k, t, ok) ==
    IF ~ok THEN caughtInLoop(k, t)
    ELSE IF t.pc = "fetch" THEN Ran([t EXCEPT !.pc = "blob"], <<>>)
    ELSE IF t.pc = "blob" THEN Ran([t EXCEPT !.pc = "base64"], <<>>)
    ELSE htmlLoop(k, [t EXCEPT !.clone[t.i + 1] = Img("data", t.clone[t.i + 1].id)],
                  t.i + 1)

\* downloadImage: toPng settles; the link is clicked, or the catch block alerts.
downloadImage(k, t, ok) ==
    IF ok
    THEN Ran([t EXCEPT !.pc = "done"], <<File(k, "png", <<>>, <<>>, NoPlacement)>>)
    ELSE Ran([t EXCEPT !.pc = "done", !.failure = "toPng", !.alerted = TRUE], <<>>)

\* downloadPdf: the catch block. window.confirm blocks until the user answers.
printFallback(t, failure, confirmPrint) ==
    Ran([t EXCEPT !.pc = "done", !.failure = failure, !.offered = TRUE,
                  !.accepted = confirmPrint, !.printed = confirmPrint],
        <<>>)

\* downloadPdf: toPng settles; img.src = dataUrl and the wait for its load event.
capturedForPdf(t, ok, raster, confirmPrint) ==
    IF ok THEN Ran([t EXCEPT !.pc = "load", !.raster = raster], <<>>)
    ELSE printFallback(t, "toPng", confirmPrint)

\* downloadPdf's contentHeightMm with width and height exchanged.
contentHeightMmOfWidth(raster) == Rat(raster.width * a4WidthMm, raster.height)

\* downloadPdf: contentHeightMm
contentHeightMm(raster) == Rat(raster.height * a4WidthMm, raster.width)

\* downloadPdf: the page jsPDF makes for pageFormat, portrait, in mm.
pageFormat(raster) ==
    IF ~RatLeq(contentHeightMm(raster), <<a4HeightMm, 1>>)
    THEN [format |-> "custom", width |-> <<a4WidthMm, 1>>,
          height |-> contentHeightMm(raster)]
    ELSE [format |-> "a4", width |-> <<a4WidthMm, 1>>, height |-> <<a4HeightMm, 1>>]

\* downloadPdf after the load event: new jsPDF, addImage and save, any of
\* which may throw.
assemblePdf(k, t, thrownBy, confirmPrint) ==
    IF thrownBy = "none"
    THEN Ran([t EXCEPT !.pc = "done"],
             <<File(k, "pdf", <<>>, <<pageFormat(t.raster)>>,
                    [x |-> 0, y |-> 0, width |-> <<a4WidthMm, 1>>,
                     height |-> contentHeightMm(t.raster)])>>)
    ELSE printFallback(t, thrownBy, confirmPrint)

\* downloadPdf: the image fires `error` instead of `load`. Only onload is set,
\* so the awaited promise never settles and the function never resumes.
imageError(t) == Ran([t EXCEPT !.failure = "load"], <<>>)

\* The state after export k ran up to its next await.
Resume(k, ran) ==
    /\ exports' = [exports EXCEPT ![k] = ran.task]
    /\ downloads' = downloads \o ran.files
    /\ UNCHANGED preview

\* handleExport(format), up to its first await.
handleExport(format) ==
    LET k == Len(exports) + 1
        t == NewExport(format)
        ran == IF format = "html" THEN downloadHtml(k, t)
               ELSE Ran([t EXCEPT !.pc = "toPng"], <<>>)
    IN  /\ exports' = Append(exports, ran.task)
        /\ downloads' = downloads \o ran.files
        /\ UNCHANGED preview

----------------------------------------------------------------------------
\* App: handleAiAction, and generateAiContent of geminiService
\*
\* While isProcessingAi is true the "AI Assist" button is disabled and an
\* overlay covers the window, so no second action is requested; the textarea
\* under the overlay still takes keystrokes.

\* The values of AiActionType.
AiActionTypes == {"Fix Grammar", "Summarize", "Continue Writing", "Make Professional"}

\* No remote call awaited.
NoAiCall == [pending |-> FALSE, action |-> "none"]

\* handleAiAction's update of the buffer with EXPAND treated like the others.
applyResultReplacing(prev, action, result) ==
    IF result # <<>> THEN result ELSE prev

\* handleAiAction: the buffer after generateAiContent resolved with result;
\* prev is the buffer at the time of the update.
applyResult(prev, action, result) ==
    IF result # <<>>
    THEN IF action = "Continue Writing" THEN prev \o <<"\n", "\n">> \o result
         ELSE result
    ELSE prev

\* handleAiAction: the catch and finally blocks.
aiFailed ==
    /\ aiAlert' = "AI Processing Failed. Please ensure you have a valid API Key."
    /\ isProcessingAi' = FALSE
    /\ aiCall' = NoAiCall
    /\ UNCHANGED <<histVars, apiKey>>

\* handleAiAction(action) up to where generateAiContent awaits the remote call.
\* Without an API key generateAiContent throws before it calls, and the catch
\* and finally blocks run before any other handler.
handleAiAction(action) ==
    IF apiKey = ""
    THEN aiFailed
    ELSE /\ isProcessingAi' = TRUE
         /\ aiCall' = [pending |-> TRUE, action |-> action]
         /\ UNCHANGED <<histVars, apiKey, aiAlert>>

\* ai.models.generateContent resolves with response.text || "", and
\* handleAiAction runs to its end.
aiResolved(result) ==
    /\ aiCall.pending
    /\ value' = applyResult(value, aiCall.action, result)
    /\ isProcessingAi' = FALSE
    /\ aiCall' = NoAiCall
    /\ UNCHANGED <<history, historyIndex, historyTimeout, timers, apiKey, aiAlert>>

\* ai.models.generateContent rejects; generateAiContent throws its own Error.
aiRejected ==
    /\ aiCall.pending
    /\ aiFailed

----------------------------------------------------------------------------
\* App: the header records of the table of contents, and Preview: the ids of
\* the rendered headings

UpperCase == <<"A", "B", "C", "D", "E", "F", "G", "H", "I", "J", "K", "L", "M",
               "N", "O", "P", "Q", "R", "S", "T", "U", "V", "W", "X", "Y", "Z">>
LowerCase == <<"a", "b", "c", "d", "e", "f", "g", "h", "i", "j", "k", "l", "m",
               "n", "o", "p", "q", "r", "s", "t", "u", "v", "w", "x", "y", "z">>

\* String.prototype.toLowerCase(), on the characters a buffer of the model holds.
toLowerCase(str) ==
    [i \in 1..Len(str) |->
        IF \E n \in 1..26 : UpperCase[n] = str[i]
        THEN LowerCase[CHOOSE n \in 1..26 : UpperCase[n] = str[i]]
        ELSE str[i]]

\* The characters \w matches.
IsWord(ch) ==
    \/ \E n \in 1..26 : ch = UpperCase[n] \/ ch = LowerCase[n]
    \/ IsDigit(ch)
    \/ ch = "_"

\* str.replace(/X+/g, '-'), matches[i] telling whether X matches str[i]: every
\* maximal run of matching characters becomes one dash.
replaceRuns(str, matches) ==
    joinWith([i \in 1..Len(str) |->
                 IF matches[i]
                 THEN IF i > 1 /\ matches[i - 1] THEN <<>> ELSE <<"-">>
                 ELSE <<str[i]>>],
             <<>>)

\* The id of a header record: text.toLowerCase().replace(/[^\w]+/g, '-').
headerId(text) ==
    LET lower == toLowerCase(text)
    IN  replaceRuns(lower, [i \in 1..Len(lower) |-> ~IsWord(lower[i])])

\* Preview: slugify(text).
slugify(text) ==
    LET trimmed == trim(toLowerCase(text))
    IN  replaceRuns(trimmed, [i \in 1..Len(trimmed) |-> IsSpace(trimmed[i])])

\* The characters "." does not match.
IsLineTerminator(ch) == ch \in {"\n", "\r"}

NoMatch == [matched |-> FALSE, level |-> 0, text |-> <<>>]

\* line.match(/^(#{1,6})\s+(.+)$/): one to six '#' and no seventh, then white
\* space, as much of it as leaves a text that is not empty and holds no line
\* terminator.
matchHeader(line) ==
    LET h == runOf(line, 0, "#")
        w == spaceRun(line, h)
        fits == {j \in 1..w :
                    /\ h + j < Len(line)
                    /\ \A i \in (h + j + 1)..Len(line) : ~IsLineTerminator(line[i])}
    IN  IF h \in 1..6 /\ fits # {}
        THEN LET j == CHOOSE j \in fits : \A m \in fits : m <= j
             IN  [matched |-> TRUE, level |-> h, text |-> substring(line, h + j, Len(line))]
        ELSE NoMatch

\* Array.prototype.filter, keep[i] telling whether the callback accepts seq[i].
filter(seq, keep) ==
    joinWith([i \in 1..Len(seq) |-> IF keep[i] THEN <<seq[i]>> ELSE <<>>], <<>>)

\* The header extraction effect: what it passes to setHeaders.
extractedHeaders(markdown) ==
    LET lines == split(markdown)
        hashed == filter(lines, [i \in 1..Len(lines) |->
                                    Len(lines[i]) > 0 /\ lines[i][1] = "#"])
        found == filter(hashed, [i \in 1..Len(hashed) |-> matchHeader(hashed[i]).matched])
    IN  [k \in 1..Len(found) |->
            [id |-> headerId(matchHeader(found[k]).text),
             text |-> matchHeader(found[k]).text,
             level |-> matchHeader(found[k]).level]]

\* The headings ReactMarkdown renders for content, in document order, with the
\* id Preview's h1..h6 give them. For the lines of the model's documents
\* (no indentation, no closing '#', no inline markup), a line is a heading when
\* it is one to six '#' followed by a space or a tab and a text, and the
\* heading's children are that text without the white space around it.
renderedHeadings(content) ==
    LET isHeading(line) ==
            LET h == runOf(line, 0, "#")
            IN  /\ h \in 1..6
                /\ h < Len(line)
                /\ line[h + 1] \in {" ", "\t"}
                /\ trim(substring(line, h, Len(line))) # <<>>
        lines == split(content)
        found == filter(lines, [i \in 1..Len(lines) |-> isHeading(lines[i])])
    IN  [k \in 1..Len(found) |->
            LET h == runOf(found[k], 0, "#")
                children == trim(substring(found[k], h, Len(found[k])))
            IN  [level |-> h, children |-> children, id |-> slugify(children)]]

\* document.getElementById(id) among the rendered headings: the position of the
\* first heading that has the id, 0 for null.
getElementById(id) ==
    LET rendered == renderedHeadings(value)
        hits == {k \in 1..Len(rendered) : rendered[k].id = id}
    IN  IF hits = {} THEN 0 ELSE CHOOSE k \in hits : \A m \in hits : k <= m

\* No navigation from the table of contents yet.
NoNavigation == [act |-> "init", header |-> 0, element |-> 0]

\* scrollToHeader(headers[k].id): the heading scrolled into view, if any.
scrollToHeader(k) ==
    /\ hlast' = [act |-> "scrollToHeader", header |-> k,
                 element |-> getElementById(headers[k + 1].id)]
    /\ UNCHANGED <<histVars, headers>>

----------------------------------------------------------------------------
\* The textarea before any toolbar mutation

NoOp == [act |-> "init", pre |-> [value |-> <<>>, selectionStart |-> 0,
                                  selectionEnd |-> 0],
         before |-> <<>>, after |-> <<>>, isOrdered |-> FALSE, restored |-> FALSE,
         prior |-> "init"]

TextAtRest ==
    /\ selectionStart = 0
    /\ selectionEnd = 0
    /\ caretTask = NoCaretTask
    /\ opCount = 0
    /\ alertShown = ""
    /\ tlast = NoOp

\* A preview without images and no export requested.
ExportAtRest ==
    /\ preview = <<>>
    /\ exports = <<>>
    /\ downloads = <<>>

\* No step of an AI action taken.
NoAiStep == [act |-> "init", action |-> "none", result |-> <<>>, pre |-> <<>>]

\* No AI action requested.
AiAtRest ==
    /\ apiKey = ""
    /\ isProcessingAi = FALSE
    /\ aiCall = NoAiCall
    /\ aiAlert = ""
    /\ aiCount = 0
    /\ alast = NoAiStep

\* A buffer with no heading, no header clicked.
HeadersAtRest ==
    /\ headers = <<>>
    /\ hlast = NoNavigation

----------------------------------------------------------------------------
\* The synchroniser as a state machine

\* Pane geometries: the two panes of the specification's example, and two small
\* panes whose ratios are not integral.
Layouts ==
    { [editor |-> [scrollHeight |-> 1000, clientHeight |-> 500],
       preview |-> [scrollHeight |-> 800, clientHeight |-> 400]],
      [editor |-> [scrollHeight |-> 4, clientHeight |-> 1],
       preview |-> [scrollHeight |-> 3, clientHeight |-> 1]] }

\* The integer offsets a user scroll of pane p may land on.
UserOffsets(p) == {(k * ScrollRange(p)) \div ScrollSteps : k \in 0..ScrollSteps}

ScrollSnapshot == [scrollTop |-> scrollTop, scrollHeight |-> scrollHeight,
                   clientHeight |-> clientHeight, isScrollingRef |-> isScrollingRef,
                   scrollTimeout |-> scrollTimeout, scrollEvent |-> scrollEvent]

ScrollAtRest ==
    /\ scrollTop = [p \in Panes |-> <<0, 1>>]
    /\ scrollHeight = [p \in Panes |-> 1]
    /\ clientHeight = [p \in Panes |-> 1]
    /\ isScrollingRef = "null"
    /\ scrollTimeout = NoScrollTimeout
    /\ scrollEvent = [p \in Panes |-> "none"]
    /\ slast = [act |-> "init", pane |-> "editor", pre |-> ScrollSnapshot]

InitScroll ==
    /\ \E L \in Layouts :
          /\ scrollHeight = [p \in Panes |-> L[p].scrollHeight]
          /\ clientHeight = [p \in Panes |-> L[p].clientHeight]
    /\ scrollTop = [p \in Panes |-> <<0, 1>>]
    /\ isScrollingRef = "null"
    /\ scrollTimeout = NoScrollTimeout
    /\ scrollEvent = [p \in Panes |-> "none"]
    /\ slast = [act |-> "init", pane |-> "editor", pre |-> ScrollSnapshot]
    /\ HistoryAtRest
    /\ TextAtRest
    /\ ExportAtRest
    /\ AiAtRest
    /\ HeadersAtRest

\* The user scrolls pane p (wheel, scrollbar, keyboard) to offset y.
UserScroll ==
    \E p \in Panes : \E y \in UserOffsets(p) :
        /\ <<y, 1>> # scrollTop[p]
        /\ scrollTop' = [scrollTop EXCEPT ![p] = <<y, 1>>]
        /\ scrollEvent' = [scrollEvent EXCEPT ![p] = "user"]
        /\ slast' = [act |-> "user", pane |-> p, pre |-> ScrollSnapshot]
        /\ UNCHANGED <<scrollHeight, clientHeight, isScrollingRef, scrollTimeout>>
        /\ UNCHANGED notScroll

\* The content of pane p is laid out again with another height (the buffer
\* changed); the browser clamps the offset and queues a scroll event if that
\* moved it.
RelayoutTo(layouts) ==
    \E p \in Panes : \E L \in layouts : \E h \in {L[p].scrollHeight, clientHeight[p]} :
        /\ h >= clientHeight[p]
        /\ h # scrollHeight[p]
        /\ scrollHeight' = [scrollHeight EXCEPT ![p] = h]
        /\ LET stored == StoredScrollTop(scrollTop[p], h - clientHeight[p])
           IN  /\ scrollTop' = [scrollTop EXCEPT ![p] = stored]
               /\ scrollEvent' = [scrollEvent EXCEPT
                                    ![p] = IF stored # scrollTop[p] /\ @ = "none"
                                           THEN "layout" ELSE @]
        /\ slast' = [act |-> "relayout", pane |-> p, pre |-> ScrollSnapshot]
        /\ UNCHANGED <<clientHeight, isScrollingRef, scrollTimeout>>
        /\ UNCHANGED notScroll

Relayout == RelayoutTo(Layouts)

\* The browser dispatches the scroll event queued on pane p: onScroll runs
\* handleScroll(p).
ScrollEvent ==
    \E p \in Panes :
        /\ scrollEvent[p] # "none"
        /\ handleScroll(p)
        /\ slast' = [act |-> "scroll", pane |-> p, pre |-> ScrollSnapshot]
        /\ UNCHANGED notScroll

\* Time passes on the cooldown. A queued scroll event is dispatched within a
\* frame, well inside one tick, so time does not pass over it.
Tick ==
    /\ scrollTimeout.armed
    /\ scrollTimeout.left > 0
    /\ \A p \in Panes : scrollEvent[p] = "none"
    /\ scrollTimeout' = [scrollTimeout EXCEPT !.left = @ - 1]
    /\ slast' = [act |-> "tick", pane |-> "editor", pre |-> ScrollSnapshot]
    /\ UNCHANGED <<scrollTop, scrollHeight, clientHeight, isScrollingRef, scrollEvent>>
    /\ UNCHANGED notScroll

\* The cooldown elapses.
CooldownElapses ==
    /\ scrollTimeoutCallback
    /\ slast' = [act |-> "timeout", pane |-> "editor", pre |-> ScrollSnapshot]
    /\ UNCHANGED notScroll

NextScroll == UserScroll \/ Relayout \/ ScrollEvent \/ Tick \/ CooldownElapses

SpecScroll == InitScroll /\ [][NextScroll]_vars

\* The synchroniser on two small panes, with its scheduling: the browser
\* dispatches every queued scroll event, time passes, and a timeout whose delay
\* has passed runs. The user may scroll, and the content change, for ever.
SmallLayouts ==
    { [editor |-> [scrollHeight |-> 4, clientHeight |-> 1],
       preview |-> [scrollHeight |-> 3, clientHeight |-> 1]] }

InitScrollSmall ==
    /\ InitScroll
    /\ \E L \in SmallLayouts : \A p \in Panes : scrollHeight[p] = L[p].scrollHeight

RelayoutSmall == RelayoutTo(SmallLayouts)

NextScrollSmall == UserScroll \/ RelayoutSmall \/ ScrollEvent \/ Tick \/ CooldownElapses

SpecScrollFair ==
    /\ InitScrollSmall
    /\ [][NextScrollSmall]_vars
    /\ WF_vars(ScrollEvent)
    /\ WF_vars(Tick)
    /\ WF_vars(CooldownElapses)

----------------------------------------------------------------------------
\* The history component as a state machine

InitHistory ==
    /\ value \in EditValues
    /\ history = <<value>>
    /\ historyIndex = 0
    /\ historyTimeout = NoTimeout
    /\ timers = <<>>
    /\ lastEdit = value
    /\ undoSince = FALSE
    /\ last = [act |-> "init", pre |-> Snapshot]
    /\ win = NoWindow
    /\ branch = NoBranch
    /\ ScrollAtRest
    /\ TextAtRest
    /\ ExportAtRest
    /\ AiAtRest
    /\ HeadersAtRest

\* The textarea's onChange, or a toolbar action, producing newValue.
Edit ==
    \E newValue \in EditValues :
        /\ historyIndex + 2 <= MaxHistory
        /\ handleContentChange(newValue)
        /\ ObserveEdit(newValue)
        /\ UNCHANGED notHistory

\* 800 ms pass with no further edit.
Commit ==
    /\ historyTimeoutCallback
    /\ ObserveCommit
    /\ UNCHANGED notHistory

\* handleToolbarClick('undo')
Undo ==
    /\ handleUndo
    /\ ObserveUndo
    /\ UNCHANGED notHistory

NextHistory == Edit \/ Commit \/ Undo

SpecHistory == InitHistory /\ [][NextHistory]_vars

----------------------------------------------------------------------------
\* The text mutations as a state machine

\* The longest buffer drawn exhaustively from Alphabet.
MaxLen == 2

\* The number of toolbar mutations applied in a row.
MaxOps == 2

Alphabet == {"a", "-", "1", ".", " ", "\n"}

\* The buffers the specification names, and lines with each kind of marker.
ExampleTexts ==
    { <<"b", "\n", "-", " ", "a", "\n", "2", ".", " ", "c">>,
      <<"h", "e", "l", "l", "o">>,
      <<"x", " ", "h", "e", "l", "l", "o", " ", "y">>,
      <<"*", " ", "a", "\n", "1", "2", ".", " ", "b">>,
      <<"-", " ", " ", "a">>,
      <<"1", ".", "\t", "a", "\n", "-", "a">> }

Texts == UNION {[1..n -> Alphabet] : n \in 0..MaxLen} \cup ExampleTexts

\* The (before, after) pairs of the toolbar: bold, quote, underline, heading.
Wraps ==
    { <<<<"*", "*">>, <<"*", "*">>>>,
      <<<<">", " ">>, <<>>>>,
      <<<<"<", "u", ">">>, <<"<", "/", "u", ">">>>>,
      <<<<"#", "#", "#", " ">>, <<>>>> }

\* The (prefix, isOrdered) pairs of the toolbar: 'ul' and 'ol'.
Lists == { <<<<"-", " ">>, FALSE>>, <<<<"1", ".", " ">>, TRUE>> }

TextSnapshot == [value |-> value, selectionStart |-> selectionStart,
                 selectionEnd |-> selectionEnd]

\* The toolbar button of the last mutation: "init" before any, "ul", "ol",
\* or the handler's name.
OpKind ==
    IF tlast.act = "insertList" THEN (IF tlast.isOrdered THEN "ol" ELSE "ul")
    ELSE tlast.act

InitText ==
    /\ value \in Texts
    /\ selectionStart \in 0..Len(value)
    /\ selectionEnd \in selectionStart..Len(value)
    /\ caretTask = NoCaretTask
    /\ opCount = 0
    /\ alertShown = ""
    /\ tlast = NoOp
    /\ history = <<value>>
    /\ historyIndex = 0
    /\ historyTimeout = NoTimeout
    /\ timers = <<>>
    /\ lastEdit = value
    /\ undoSince = FALSE
    /\ last = [act |-> "init", pre |-> Snapshot]
    /\ win = NoWindow
    /\ branch = NoBranch
    /\ ScrollAtRest
    /\ ExportAtRest
    /\ AiAtRest
    /\ HeadersAtRest

\* handleToolbarClick('bold' | 'quote' | 'underline'), or a heading of the dropdown.
\* The zero-delay timeout of the previous mutation has run by the next click.
WrapSelection ==
    \E w \in Wraps :
        /\ opCount < MaxOps
        /\ ~caretTask.pending
        /\ insertText(w[1], w[2])
        /\ opCount' = opCount + 1
        /\ alertShown' = ""
        /\ tlast' = [act |-> "insertText", pre |-> TextSnapshot,
                     before |-> w[1], after |-> w[2], isOrdered |-> FALSE,
                     restored |-> FALSE, prior |-> OpKind]
        /\ UNCHANGED <<obsVars, scrollAll, exportAll, aiAll, headerAll>>

\* handleToolbarClick('ul' | 'ol')
ListTransform ==
    \E l \in Lists :
        /\ opCount < MaxOps
        /\ ~caretTask.pending
        /\ insertList(l[1], l[2])
        /\ opCount' = opCount + 1
        /\ alertShown' = ""
        /\ tlast' = [act |-> "insertList", pre |-> TextSnapshot,
                     before |-> l[1], after |-> <<>>, isOrdered |-> l[2],
                     restored |-> FALSE, prior |-> OpKind]
        /\ UNCHANGED <<obsVars, scrollAll, exportAll, aiAll, headerAll>>

\* The zero-delay timeout of insertText or insertList runs.
RestoreCaret ==
    /\ caretTaskCallback
    /\ tlast' = [tlast EXCEPT !.restored = TRUE]
    /\ UNCHANGED <<opCount, alertShown, obsVars, scrollAll, exportAll, aiAll, headerAll>>

NextText == WrapSelection \/ ListTransform \/ RestoreCaret

SpecText == InitText /\ [][NextText]_vars

----------------------------------------------------------------------------
\* The formatting tools as a state machine

\* The longest buffer drawn exhaustively from FormatAlphabet.
MaxFormatLen == 2

\* The number of formatting tools applied in a row.
MaxFormatOps == 2

FormatAlphabet == {"#", "-", "*", " ", "\n", "a", "|", "1"}

\* Longer buffers with the selections made in them: JSON values inside other
\* text, the table of the specification, a table whose later rows have more
\* cells than its first, and Markdown to beautify.
FormatExamples ==
    { [text |-> <<"x", " ", "{", "\"", "b", "\"", ":", "1", ",", "\"", "a",
                  "\"", ":", "[", "t", "r", "u", "e", ",", "{", "}", "]",
                  "}">>,
       selections |-> {<<2, 23>>, <<0, 23>>, <<2, 2>>, <<13, 22>>}],
      [text |-> <<"[", "1", ",", " ", "-", "0", " ", "]", "\n", "2">>,
       selections |-> {<<0, 8>>, <<0, 10>>, <<3, 7>>}],
      [text |-> <<"{", "\"", "2", "\"", ":", "n", "u", "l", "l", ",", "\"",
                  "a", "\"", ":", "\"", "b", "\"", ",", "\"", "1", "\"", ":",
                  "[", "]", ",", "\"", "a", "\"", ":", "7", "}">>,
       selections |-> {<<0, 31>>, <<5, 9>>}],
      [text |-> <<"|", " ", "a", " ", "|", " ", "b", "b", " ", "|", "\n",
                  "|", " ", "-", " ", "|", " ", "-", " ", "|", "\n", "|",
                  " ", "c", " ", "|", " ", "d", " ", "|">>,
       selections |-> {<<0, 29>>, <<0, 9>>, <<2, 3>>, <<10, 11>>}],
      [text |-> <<"x", "\n", "|", "a", "|", "\n", "|", "-", "|", "-", "-",
                  "|", "\n", "|", "b", "b", "|", "c", "|", "d", "|">>,
       selections |-> {<<2, 21>>, <<0, 21>>, <<0, 1>>, <<1, 2>>, <<6, 7>>}],
      [text |-> <<"#", "a", "\n", "\n", "\n", "\n", "-", "b", "\n", "*", "c",
                  "\n", "#", "#", " ", "d">>,
       selections |-> {<<0, 0>>, <<0, 16>>}],
      [text |-> <<"#", "#", "#", "#", "#", "#", "#", "a", "\n", "*", "*",
                  "b", "*", "*">>,
       selections |-> {<<0, 0>>, <<3, 9>>}] }

FormatTexts == UNION {[1..n -> FormatAlphabet] : n \in 0..MaxFormatLen}

InitFormat ==
    /\ \/ /\ value \in FormatTexts
          /\ selectionStart \in 0..Len(value)
          /\ selectionEnd \in selectionStart..Len(value)
       \/ \E x \in FormatExamples : \E sel \in x.selections :
              /\ value = x.text
              /\ selectionStart = sel[1]
              /\ selectionEnd = sel[2]
    /\ caretTask = NoCaretTask
    /\ opCount = 0
    /\ alertShown = ""
    /\ tlast = NoOp
    /\ history = <<value>>
    /\ historyIndex = 0
    /\ historyTimeout = NoTimeout
    /\ timers = <<>>
    /\ lastEdit = value
    /\ undoSince = FALSE
    /\ last = [act |-> "init", pre |-> Snapshot]
    /\ win = NoWindow
    /\ branch = NoBranch
    /\ ScrollAtRest
    /\ ExportAtRest
    /\ AiAtRest
    /\ HeadersAtRest

\* What a click on a tool of the format dropdown leaves behind, besides what
\* the tool does: the record of the click and of the state it ran in.
FormatClick(tool) ==
    /\ opCount < MaxFormatOps
    /\ ~caretTask.pending
    /\ opCount' = opCount + 1
    /\ tlast' = [act |-> tool, pre |-> TextSnapshot, before |-> <<>>, after |-> <<>>,
                 isOrdered |-> FALSE, restored |-> FALSE, prior |-> OpKind]
    /\ last' = [act |-> tool, pre |-> Snapshot]
    /\ UNCHANGED <<lastEdit, undoSince, win, branch, scrollAll, exportAll, aiAll, headerAll>>

\* The "Format JSON" entry of the format dropdown.
FormatJSON == formatJSON /\ FormatClick("formatJSON")

\* The "Format Table" entry of the format dropdown.
FormatTable == formatMarkdownTable /\ FormatClick("formatMarkdownTable")

\* The "Beautify Document" entry of the format dropdown.
Beautify == beautifyMarkdown /\ FormatClick("beautifyMarkdown")

\* 800 ms pass after a formatting tool changed the buffer.
FormatCommit ==
    /\ historyTimeoutCallback
    /\ last' = [act |-> "commit", pre |-> Snapshot]
    /\ UNCHANGED <<lastEdit, undoSince, win, branch, scrollAll, textAll,
                   exportAll, aiAll, headerAll>>

NextFormat == FormatJSON \/ FormatTable \/ Beautify \/ RestoreCaret \/ FormatCommit

SpecFormat == InitFormat /\ [][NextFormat]_vars

----------------------------------------------------------------------------
\* The exports as a state machine

\* The number of exports requested in a session.
MaxExports == 2

\* The number of images in the preview.
MaxImages == 2

\* The pixel sizes of a captured preview: one as high as an A4 page, one wider
\* than high, and one a little higher than an A4 page (297.15 mm).
Rasters ==
    { [width |-> 210, height |-> 297], [width |-> 800, height |-> 600],
      [width |-> 1000, height |-> 1415] }

\* Previews of pasted (blob:) and linked (https:) images.
Previews ==
    UNION {{[i \in 1..n |-> Img(scheme[i], i)] : scheme \in [1..n -> {"blob", "https"}]} :
               n \in 0..MaxImages}

InitExport ==
    /\ preview \in Previews
    /\ exports = <<>>
    /\ downloads = <<>>
    /\ HistoryAtRest
    /\ ScrollAtRest
    /\ TextAtRest
    /\ AiAtRest
    /\ HeadersAtRest

\* A click on an entry of the export menu, which stays available while an
\* earlier export is in flight.
RequestExport ==
    \E format \in {"html", "image", "pdf"} :
        /\ Len(exports) < MaxExports
        /\ handleExport(format)
        /\ UNCHANGED notExport

\* What downloadHtml awaits for the image at hand settles.
ImageResolutionSettles ==
    \E k \in 1..Len(exports) : \E ok \in BOOLEAN :
        /\ exports[k].format = "html"
        /\ exports[k].pc \in {"fetch", "blob", "base64"}
        /\ Resume(k, awaitInLoop(k, exports[k], ok))
        /\ UNCHANGED notExport

\* toPng settles for downloadImage.
ImageCaptureSettles ==
    \E k \in 1..Len(exports) : \E ok \in BOOLEAN :
        /\ exports[k].format = "image"
        /\ exports[k].pc = "toPng"
        /\ Resume(k, downloadImage(k, exports[k], ok))
        /\ UNCHANGED notExport

\* toPng settles for downloadPdf.
PdfCaptureSettles ==
    \E k \in 1..Len(exports) : \E ok, confirmPrint \in BOOLEAN : \E raster \in Rasters :
        /\ exports[k].format = "pdf"
        /\ exports[k].pc = "toPng"
        /\ Resume(k, capturedForPdf(exports[k], ok, raster, confirmPrint))
        /\ UNCHANGED notExport

\* The captured image fires `load` and downloadPdf runs to its end.
ImageLoads ==
    \E k \in 1..Len(exports) : \E confirmPrint \in BOOLEAN :
        \E thrownBy \in {"none", "addImage", "save"} :
            /\ exports[k].pc = "load"
            /\ exports[k].failure = "none"
            /\ Resume(k, assemblePdf(k, exports[k], thrownBy, confirmPrint))
            /\ UNCHANGED notExport

\* The captured image cannot be decoded and fires `error`.
ImageFailsToLoad ==
    \E k \in 1..Len(exports) :
        /\ exports[k].pc = "load"
        /\ exports[k].failure = "none"
        /\ Resume(k, imageError(exports[k]))
        /\ UNCHANGED notExport

NextExport ==
    \/ RequestExport
    \/ ImageResolutionSettles
    \/ ImageCaptureSettles
    \/ PdfCaptureSettles
    \/ ImageLoads
    \/ ImageFailsToLoad

SpecExport == InitExport /\ [][NextExport]_vars

----------------------------------------------------------------------------
\* The AI actions as a state machine

\* The number of AI actions requested in a session.
MaxAiCalls == 2

\* What the remote model answers: nothing, or some Markdown.
AiResults == {<<>>, <<"r">>, <<"r", "\n", "s">>}

AiStep(act, action, result) ==
    [act |-> act, action |-> action, result |-> result, pre |-> value]

InitAi ==
    /\ value \in EditValues
    /\ history = <<value>>
    /\ historyIndex = 0
    /\ historyTimeout = NoTimeout
    /\ timers = <<>>
    /\ lastEdit = value
    /\ undoSince = FALSE
    /\ last = [act |-> "init", pre |-> Snapshot]
    /\ win = NoWindow
    /\ branch = NoBranch
    /\ apiKey \in {"", "key"}
    /\ isProcessingAi = FALSE
    /\ aiCall = NoAiCall
    /\ aiAlert = ""
    /\ aiCount = 0
    /\ alast = NoAiStep
    /\ ScrollAtRest
    /\ TextAtRest
    /\ ExportAtRest
    /\ HeadersAtRest

\* A click on an action of the "AI Assist" menu.
RequestAi ==
    \E action \in AiActionTypes :
        /\ aiCount < MaxAiCalls
        /\ ~isProcessingAi
        /\ handleAiAction(action)
        /\ aiCount' = aiCount + 1
        /\ alast' = AiStep(IF apiKey = "" THEN "failed" ELSE "requested", action, <<>>)
        /\ UNCHANGED <<obsVars, scrollAll, textAll, exportAll, headerAll>>

\* The remote call succeeds.
AiResolves ==
    \E result \in AiResults :
        /\ aiResolved(result)
        /\ alast' = AiStep("resolved", aiCall.action, result)
        /\ UNCHANGED <<aiCount, obsVars, scrollAll, textAll, exportAll, headerAll>>

\* The remote call fails.
AiRejects ==
    /\ aiRejected
    /\ alast' = AiStep("failed", aiCall.action, <<>>)
    /\ UNCHANGED <<aiCount, obsVars, scrollAll, textAll, exportAll, headerAll>>

\* A keystroke in the textarea, whose onChange is setMarkdown.
AiTyping ==
    \E newValue \in EditValues :
        /\ value' = newValue
        /\ alast' = AiStep("typed", "none", <<>>)
        /\ UNCHANGED <<history, historyIndex, historyTimeout, timers, apiKey, isProcessingAi,
                       aiCall, aiAlert, aiCount, obsVars, scrollAll, textAll, exportAll, headerAll>>

NextAi == RequestAi \/ AiResolves \/ AiRejects \/ AiTyping

SpecAi == InitAi /\ [][NextAi]_vars

----------------------------------------------------------------------------
\* The table of contents as a state machine

\* The longest heading text drawn exhaustively from HeaderAlphabet.
MaxHeaderLen == 2

HeaderAlphabet == {"a", "B", " ", "."}

\* Heading texts: every string over the alphabet that is not all spaces.
HeaderTexts ==
    {t \in UNION {[1..n -> HeaderAlphabet] : n \in 1..MaxHeaderLen} :
        \E i \in 1..Len(t) : t[i] # " "}

Hashes(n) == [i \in 1..n |-> "#"]

\* Documents of one heading line, of every level, and documents of several
\* lines: headings among paragraphs, two headings of the same text, a heading
\* of seven '#', which is none.
HeaderDocs ==
    {Hashes(n) \o <<" ">> \o t : n \in 1..6, t \in HeaderTexts}
        \cup { <<"#", " ", "I", "n", "\n", "t", "e", "x", "t", "\n",
                 "#", "#", " ", "T", "o", " ", "d", "o">>,
               <<"#", " ", "a", "\n", "\n", "#", "#", " ", "a">>,
               <<"#", "#", "#", "#", "#", "#", "#", " ", "a", "\n", "#", "\t", "b", "_", "1">> }

\* What the user types over a document.
HeaderEdits == {<<"#", " ", "a", "\n", "b">>, <<"b">>}

InitHeaders ==
    /\ value \in HeaderDocs
    /\ history = <<value>>
    /\ historyIndex = 0
    /\ historyTimeout = NoTimeout
    /\ timers = <<>>
    /\ lastEdit = value
    /\ undoSince = FALSE
    /\ last = [act |-> "init", pre |-> Snapshot]
    /\ win = NoWindow
    /\ branch = NoBranch
    /\ headers = extractedHeaders(value)
    /\ hlast = NoNavigation
    /\ ScrollAtRest
    /\ TextAtRest
    /\ ExportAtRest
    /\ AiAtRest

\* The textarea's onChange; the effect sets the header records after the render.
HeaderEdit ==
    \E newValue \in HeaderEdits :
        /\ newValue # value
        /\ handleContentChange(newValue)
        /\ ObserveEdit(newValue)
        /\ headers' = extractedHeaders(newValue)
        /\ hlast' = [NoNavigation EXCEPT !.act = "edit"]
        /\ UNCHANGED <<scrollAll, textAll, exportAll, aiAll>>

\* 800 ms pass with no further edit.
HeaderCommit ==
    /\ Len(history) < MaxHistory
    /\ historyTimeoutCallback
    /\ ObserveCommit
    /\ UNCHANGED <<headers, hlast, scrollAll, textAll, exportAll, aiAll>>

\* A click on an entry of the table of contents.
ScrollToHeader ==
    \E k \in 0..(Len(headers) - 1) :
        /\ scrollToHeader(k)
        /\ UNCHANGED <<obsVars, scrollAll, textAll, exportAll, aiAll>>

NextHeaders == HeaderEdit \/ HeaderCommit \/ ScrollToHeader

SpecHeaders == InitHeaders /\ [][NextHeaders]_vars

----------------------------------------------------------------------------
\* Claims about the history component

\* C1: in every reachable state the live buffer is the value of the most recent
\* edit or, when an undo has happened since that edit, exactly entries[index].
C1_LiveBufferIsLastEditOrEntry ==
    \/ value = lastEdit
    \/ undoSince /\ value = Entry(historyIndex)

\* C2: three edits in one debounce window whose commit then fires add exactly one
\* history entry (the third edit, at the new index), and one undo afterwards
\* sets the live buffer to the value it had before the first of the three.
C2_ThreeEditsCoalesce ==
    /\ (win.stage = "committed" /\ win.n = 3) =>
            /\ Len(history) = last.pre.historyIndex + 2
            /\ SubSeq(history, 1, Len(history) - 1)
                   = SubSeq(last.pre.history, 1, Len(history) - 1)
            /\ historyIndex = Len(history) - 1
            /\ Entry(historyIndex) = lastEdit
    /\ (win.stage = "undone" /\ win.n = 3) => value = win.pre

\* C3: after one undo from entry F back to entry E, typing and letting the
\* commit fire removes F (the entries become those up to E plus the new text),
\* a further undo shows E, and later undos only show entries up to E.
C3_BranchDiscardsForward ==
    /\ branch.stage = "committed" => history = Append(branch.kept, lastEdit)
    /\ branch.stage = "reundone" => (value = branch.E /\ historyIndex = branch.iE)
    /\ branch.stage \in {"reundone", "later"} =>
            /\ historyIndex <= branch.iE
            /\ value = branch.kept[historyIndex + 1]

\* C4: an undo at index > 0 decrements the index by exactly one and shows the
\* entry at the new index; it leaves the entries and the debounce timeout as
\* they were.
C4_UndoIsPureIndexMove ==
    (last.act = "undo" /\ last.pre.historyIndex > 0) =>
        /\ historyIndex = last.pre.historyIndex - 1
        /\ value = last.pre.history[historyIndex + 1]
        /\ history = last.pre.history
        /\ historyTimeout = last.pre.historyTimeout

\* An undo taken while an edit was pending, which changed what is shown.
C4_Witness ==
    /\ last.act = "undo"
    /\ last.pre.historyIndex > 0
    /\ last.pre.historyTimeout.armed
    /\ value # last.pre.value

\* C5: an undo at index 0 changes nothing: buffer, entries, index and the
\* timeout are as before.
C5_UndoAtZeroIsNoOp ==
    (last.act = "undo" /\ last.pre.historyIndex = 0) => Snapshot = last.pre

\* An undo at index 0 while an uncommitted edit is shown.
C5_Witness ==
    /\ last.act = "undo"
    /\ last.pre.historyIndex = 0
    /\ historyTimeout.armed
    /\ value # Entry(0)

\* C23: whenever the debounce timeout fires while the index is i, the entries
\* become the old entries 0..i followed by the buffer of the last edit, the
\* entries after i are discarded and the index becomes i + 1; so right after
\* every commit the index is length(entries) - 1 and entries[index] is the
\* committed buffer.
C23_CommitAppendsAtIndex ==
    last.act = "commit" =>
        LET i == last.pre.historyIndex
        IN  /\ history = Append(SubSeq(last.pre.history, 1, i + 1), lastEdit)
            /\ historyIndex = i + 1
            /\ historyIndex = Len(history) - 1
            /\ Entry(historyIndex) = lastEdit

\* C24: an edit updates the live buffer at once; an edit made while a commit is
\* pending cancels the timeout and arms it again for the new text, and leaves
\* the entries and the index as they were, so that edits with no firing between
\* them add no history entry; the firing leaves no timeout armed.
C24_EditsCoalesce ==
    /\ last.act = "edit" =>
          /\ value = lastEdit
          /\ history = last.pre.history
          /\ historyIndex = last.pre.historyIndex
          /\ historyTimeout = [armed |-> TRUE, newValue |-> lastEdit,
                               idx |-> historyIndex]
    /\ last.act = "commit" => ~historyTimeout.armed

\* The third or a later edit of a burst, changing what is shown.
C24_Witness ==
    /\ last.act = "edit"
    /\ last.pre.historyTimeout.armed
    /\ win.stage = "open"
    /\ win.n >= 3
    /\ value # last.pre.value

\* C25: an undo issued while a debounce commit is pending neutralises it: after
\* an undo no history entry is appended and the index does not advance until a
\* new edit occurs.
C25_UndoNeutralisesPendingCommit ==
    last.act = "commit" => ~undoSince

\* C26: 0 <= index < length(entries) in every reachable state, under any
\* interleaving of edits, timeout firings and undos.
C26_IndexInRange ==
    /\ 0 <= historyIndex
    /\ historyIndex < Len(history)

\* A timeout armed at a higher index firing after an undo.
C26_Witness ==
    /\ last.act = "commit"
    /\ last.pre.historyTimeout.armed
    /\ last.pre.historyIndex < last.pre.historyTimeout.idx

\* C27: at most one history debounce timeout is pending at any instant, arming
\* one cancels the one before, and a burst of edits followed by a quiet period
\* produces exactly one commit: the firing leaves nothing pending.
C27_OneTimeoutPending ==
    /\ Len(timers) <= 1
    /\ historyTimeout.armed <=> Len(timers) = 1
    /\ (last.act = "edit" /\ last.pre.historyTimeout.armed) =>
          timers = <<[newValue |-> lastEdit, idx |-> historyIndex]>>
    /\ last.act = "commit" => timers = <<>>

\* The commit of a burst of several edits.
C27_Witness ==
    /\ last.act = "commit"
    /\ win.stage = "committed"
    /\ win.n >= 2
    /\ Len(history) = Len(last.pre.history) + 1

----------------------------------------------------------------------------
\* Claims about the text mutations

\* C8: Wrap Selection (before, after) on buffer B with selection [s, e] yields
\* B[0..s) + before + B[s..e) + after + B[e..): the text outside the selection and
\* the selected text are unchanged, the length grows by len(before) + len(after),
\* and the operation is available for every valid selection.
C8_WrapInsertsAroundSelection ==
    /\ tlast.act = "insertText" =>
          LET B == tlast.pre.value
              s == tlast.pre.selectionStart
              e == tlast.pre.selectionEnd
              b == tlast.before
              a == tlast.after
          IN  /\ Len(value) = Len(B) + Len(b) + Len(a)
              /\ \A i \in 1..s : value[i] = B[i]
              /\ \A i \in 1..Len(b) : value[s + i] = b[i]
              /\ \A i \in 1..(e - s) : value[s + Len(b) + i] = B[s + i]
              /\ \A i \in 1..Len(a) : value[e + Len(b) + i] = a[i]
              /\ \A i \in 1..(Len(B) - e) : value[e + Len(b) + Len(a) + i] = B[e + i]
    /\ (opCount < MaxOps /\ ~caretTask.pending) => ENABLED WrapSelection

\* "hello" wrapped in a pair of markers inside a longer buffer.
C8_Witness ==
    /\ tlast.act = "insertText"
    /\ tlast.pre.value = <<"x", " ", "h", "e", "l", "l", "o", " ", "y">>
    /\ tlast.pre.selectionStart = 2
    /\ tlast.pre.selectionEnd = 7
    /\ tlast.before = <<"*", "*">>
    /\ tlast.after = <<"*", "*">>
    /\ value = <<"x", " ", "*", "*", "h", "e", "l", "l", "o", "*", "*", " ", "y">>

\* C9: after Wrap Selection the caret is a collapsed selection, at
\* s + len(before), between the markers, when the selection was empty, and at
\* s + len(before) + (e - s) + len(after), right after the inserted `after`, when
\* it was not; either way a valid offset of the new buffer.
C9_CaretAfterWrap ==
    (tlast.act = "insertText" /\ tlast.restored) =>
        LET s == tlast.pre.selectionStart
            e == tlast.pre.selectionEnd
            b == tlast.before
            a == tlast.after
            caret == selectionStart
        IN  /\ selectionEnd = selectionStart
            /\ 0 <= caret /\ caret <= Len(value)
            /\ s = e =>
                  /\ caret = s + Len(b)
                  /\ SubSeq(value, caret - Len(b) + 1, caret) = b
                  /\ SubSeq(value, caret + 1, caret + Len(a)) = a
            /\ s # e =>
                  /\ caret = s + Len(b) + (e - s) + Len(a)
                  /\ SubSeq(value, caret - Len(a) + 1, caret) = a

\* The caret restored after a selected word was wrapped in unlike markers.
C9_Witness ==
    /\ tlast.act = "insertText"
    /\ tlast.restored
    /\ tlast.pre.selectionStart < tlast.pre.selectionEnd
    /\ tlast.pre.selectionEnd < Len(tlast.pre.value)
    /\ Len(tlast.after) > Len(tlast.before)

\* The nearest line boundary at or before offset s of buffer B.
BlockStart(B, s) ==
    CHOOSE i \in 0..s : /\ (i = 0 \/ B[i] = "\n")
                        /\ \A j \in (i + 1)..s : B[j] # "\n"

\* The nearest line boundary at or after offset e of buffer B.
BlockEnd(B, e) ==
    CHOOSE j \in e..Len(B) : /\ (j = Len(B) \/ B[j + 1] = "\n")
                             /\ \A k \in (e + 1)..j : B[k] # "\n"

\* The length of a list marker "-", "*" or "<number>." at the start of line
\* that is followed by white space; 0 if the line starts with none.
MarkerAt(line) ==
    IF Len(line) >= 2 /\ line[1] \in {"-", "*"} /\ IsSpace(line[2]) THEN 1
    ELSE IF \E d \in 1..Len(line) :
               /\ \A i \in 1..d : IsDigit(line[i])
               /\ d + 2 <= Len(line) /\ line[d + 1] = "." /\ IsSpace(line[d + 2])
    THEN 1 + CHOOSE d \in 1..Len(line) :
               /\ \A i \in 1..d : IsDigit(line[i])
               /\ d + 2 <= Len(line) /\ line[d + 1] = "." /\ IsSpace(line[d + 2])
    ELSE 0

\* line without a leading marker "- ", "* " or "<number>. ": the marker and the
\* one space after it.
WithoutMarker(line) ==
    LET m == MarkerAt(line)
    IN  IF m > 0 /\ line[m + 1] = " " THEN SubSeq(line, m + 2, Len(line)) ELSE line

\* line without a leading marker and the whole run of white space after it.
WithoutMarkerAndSpace(line) ==
    LET m == MarkerAt(line)
    IN  IF m = 0 THEN line
        ELSE LET k == CHOOSE k \in (m + 1)..Len(line) :
                          /\ \A i \in (m + 1)..k : IsSpace(line[i])
                          /\ (k = Len(line) \/ ~IsSpace(line[k + 1]))
             IN  SubSeq(line, k + 1, Len(line))

\* The block the claim describes for the last insertList, given what stripping
\* a marker means: line k gets "<k>. " (ordered) or the literal prefix.
ListedBlock(Strip(_)) ==
    LET B == tlast.pre.value
        lines == split(SubSeq(B, BlockStart(B, tlast.pre.selectionStart) + 1,
                              BlockEnd(B, tlast.pre.selectionEnd)))
    IN  join([k \in 1..Len(lines) |->
                 (IF tlast.isOrdered THEN toString(k) \o <<".", " ">> ELSE tlast.before)
                    \o Strip(lines[k])])

\* The buffer and caret the claim describes for the last insertList.
ListTransformIs(Strip(_)) ==
    tlast.act = "insertList" =>
        LET B == tlast.pre.value
            bs == BlockStart(B, tlast.pre.selectionStart)
            be == BlockEnd(B, tlast.pre.selectionEnd)
        IN  /\ value = SubSeq(B, 1, bs) \o ListedBlock(Strip) \o SubSeq(B, be + 1, Len(B))
            /\ tlast.restored =>
                  /\ selectionStart = bs + Len(ListedBlock(Strip))
                  /\ selectionEnd = selectionStart

\* C10 as stated: Block List Transform strips one marker "- ", "* " or
\* "<number>. " from each affected line and prefixes line k with "<k>. " (ordered)
\* or the literal prefix (unordered); the caret ends at the end of the block.
C10_ListStripsMarkerAndOneSpace == ListTransformIs(WithoutMarker)

\* C10 as amended: the marker is stripped together with the whole run of white
\* space after it; numbering, literal prefix and caret are as stated.
C10_ListStripsMarkerAndSpaces == ListTransformIs(WithoutMarkerAndSpace)

\* The example: ordered on "b\n- a\n2. c", all of it selected, caret restored.
C10_Witness ==
    /\ tlast.act = "insertList"
    /\ tlast.isOrdered
    /\ tlast.restored
    /\ tlast.pre.value = <<"b", "\n", "-", " ", "a", "\n", "2", ".", " ", "c">>
    /\ tlast.pre.selectionStart = 0
    /\ tlast.pre.selectionEnd = 10
    /\ value = <<"1", ".", " ", "b", "\n", "2", ".", " ", "a", "\n",
                 "3", ".", " ", "c">>
    /\ selectionStart = 14

\* C11: Block List Transform is idempotent: invoked twice in succession with
\* the same ordered flag, the second time from the buffer and caret the first
\* one produced, it gives the same buffer as invoked once.
C11_ListTransformIdempotent ==
    (tlast.act = "insertList" /\ tlast.prior = OpKind) => value = tlast.pre.value

\* The number of "\n" in str.
RECURSIVE newlines(_)
newlines(str) ==
    IF Len(str) = 0 THEN 0
    ELSE (IF Head(str) = "\n" THEN 1 ELSE 0) + newlines(Tail(str))

\* s starts with p.
StartsWith(s, p) == Len(s) >= Len(p) /\ SubSeq(s, 1, Len(p)) = p

\* C12: Block List Transform rewrites exactly the full lines spanned by the
\* selection: the lines from the nearest line boundary at or before the selection
\* start to the nearest one at or after the selection end each get their prefix,
\* every character outside that range is unchanged, and the buffer keeps its
\* number of lines.
C12_ListRewritesSpannedLines ==
    tlast.act = "insertList" =>
        LET B == tlast.pre.value
            bs == BlockStart(B, tlast.pre.selectionStart)
            be == BlockEnd(B, tlast.pre.selectionEnd)
            tail == Len(B) - be
            first == newlines(SubSeq(B, 1, bs)) + 1
            count == newlines(SubSeq(B, bs + 1, be)) + 1
            old == split(B)
            new == split(value)
        IN  /\ Len(value) >= bs + tail
            /\ SubSeq(value, 1, bs) = SubSeq(B, 1, bs)
            /\ SubSeq(value, Len(value) - tail + 1, Len(value)) = SubSeq(B, be + 1, Len(B))
            /\ Len(new) = Len(old)
            /\ \A i \in 1..Len(old) :
                  IF i >= first /\ i < first + count
                  THEN StartsWith(new[i],
                                  IF tlast.isOrdered
                                  THEN toString(i - first + 1) \o <<".", " ">>
                                  ELSE tlast.before)
                  ELSE new[i] = old[i]

\* An ordered list made of the middle of a line between two other lines.
C12_Witness ==
    /\ tlast.act = "insertList"
    /\ tlast.isOrdered
    /\ tlast.pre.value = <<"b", "\n", "-", " ", "a", "\n", "2", ".", " ", "c">>
    /\ tlast.pre.selectionStart = 3
    /\ tlast.pre.selectionEnd = 4
    /\ value = <<"b", "\n", "1", ".", " ", "a", "\n", "2", ".", " ", "c">>

----------------------------------------------------------------------------
\* Claims about the formatting tools

\* The text selected when the last toolbar handler ran.
PreSelected ==
    SubSeq(tlast.pre.value, tlast.pre.selectionStart + 1, tlast.pre.selectionEnd)

\* The buffer the last toolbar handler ran on, with T in place of its selection.
SelectionReplacedBy(T) ==
    SubSeq(tlast.pre.value, 1, tlast.pre.selectionStart) \o T
        \o SubSeq(tlast.pre.value, tlast.pre.selectionEnd + 1, Len(tlast.pre.value))

\* C13: Format JSON on a non-empty selection [s, e] that parses replaces the
\* selected text: the buffer becomes B[0..s) + F + B[e..), F being the selection
\* serialised again with an indent of two spaces.
C13_FormatJSONReplacesSelection ==
    (tlast.act = "formatJSON" /\ JSONparse(PreSelected).ok) =>
        value = SelectionReplacedBy(JSONstringify(JSONparse(PreSelected).val))

\* The cells of a pipe-bounded row: the text between its pipes, trimmed.
CellsOf(line) ==
    LET parts == splitBy(trim(line), "|")
    IN  [i \in 1..(Len(parts) - 2) |-> trim(parts[i + 1])]

\* The selection is one or more rows that each start and end with a pipe.
PipeBoundedRows(text) ==
    /\ trim(text) # <<>>
    /\ \A i \in 1..Len(split(trim(text))) :
          LET line == trim(split(trim(text))[i])
          IN  Len(line) >= 2 /\ line[1] = "|" /\ line[Len(line)] = "|"

\* The rows the claim describes: column c is as wide as its widest cell over
\* all rows, a cell of dashes becomes dashes of that width, any other cell is
\* padded on the right to that width.
AlignedRows(text) ==
    LET rows == [i \in 1..Len(split(trim(text))) |-> CellsOf(split(trim(text))[i])]
        width(c) == Max({Len(rows[r][c]) : r \in {r \in 1..Len(rows) : c <= Len(rows[r])}})
        cell(r, c) == IF IsSeparator(rows[r][c]) THEN [i \in 1..width(c) |-> "-"]
                      ELSE rows[r][c] \o spaces(width(c) - Len(rows[r][c]))
    IN  join([r \in 1..Len(rows) |->
                 <<"|", " ">>
                    \o joinWith([c \in 1..Len(rows[r]) |-> cell(r, c)],
                            <<" ", "|", " ">>)
                    \o <<" ", "|">>])

\* C14: Format Table on a selection of pipe-bounded rows replaces the selection
\* with the rows aligned: every cell of column c padded on the right to the
\* widest cell of column c over all rows, every cell of dashes emitted as dashes
\* of that width.
C14_FormatTableReplacesWithAlignedRows ==
    (tlast.act = "formatMarkdownTable" /\ PipeBoundedRows(PreSelected)) =>
        value = SelectionReplacedBy(AlignedRows(PreSelected))

\* The last step was Format JSON or Format Table on a selection it rejects.
FormatRejected ==
    /\ last.act = tlast.act
    /\ \/ /\ tlast.act = "formatJSON"
          /\ trim(PreSelected) = <<>> \/ ~JSONparse(PreSelected).ok
       \/ /\ tlast.act = "formatMarkdownTable"
          /\ trim(PreSelected) = <<>> \/ \A i \in 1..Len(PreSelected) : PreSelected[i] # "|"

\* C15: Format JSON on an empty or non-parseable selection, and Format Table on
\* an empty selection or one without "|", tell the user of the failure and leave
\* the buffer as it was; they arm no history commit and add no history entry.
C15_FailedFormatChangesNothing ==
    FormatRejected =>
        /\ alertShown # ""
        /\ value = tlast.pre.value
        /\ historyTimeout = last.pre.historyTimeout
        /\ history = last.pre.history
        /\ historyIndex = last.pre.historyIndex

\* Format JSON rejects a non-empty selection while an earlier commit is pending.
C15_Witness ==
    /\ FormatRejected
    /\ tlast.act = "formatJSON"
    /\ alertShown = "Invalid JSON selection."
    /\ trim(PreSelected) # <<>>
    /\ historyTimeout.armed

\* C16: Beautify Document is idempotent, applied twice it gives the same buffer
\* as applied once, and so is each of its three passes taken alone: the space
\* after a line-leading run of "#", the space after a line-leading "-" or "*",
\* and the collapse of three or more newlines to two.
C16_BeautifyIdempotent ==
    /\ clean(clean(value)) = clean(value)
    /\ fixHeaders(fixHeaders(value, 0), 0) = fixHeaders(value, 0)
    /\ fixLists(fixLists(value, 0), 0) = fixLists(value, 0)
    /\ collapseNewlines(collapseNewlines(value, 0), 0) = collapseNewlines(value, 0)
    /\ (tlast.act = "beautifyMarkdown" /\ tlast.prior = "beautifyMarkdown") =>
          value = tlast.pre.value

\* Beautify Document applied twice to a buffer that every pass changes.
C16_Witness ==
    /\ tlast.act = "beautifyMarkdown"
    /\ tlast.prior = "beautifyMarkdown"
    /\ history[1] = <<"#", "a", "\n", "\n", "\n", "\n", "-", "b", "\n", "*",
            "c", "\n", "#", "#", " ", "d">>
    /\ value = <<"#", " ", "a", "\n", "\n", "-", " ", "b", "\n", "*", " ",
            "c", "\n", "#", "#", " ", "d">>
    /\ fixHeaders(history[1], 0) # history[1]
    /\ fixLists(history[1], 0) # history[1]
    /\ collapseNewlines(history[1], 0) # history[1]

\* The space at offset j of out stands directly after a run of one to six "#",
\* or after one "-" or "*", that starts its line.
AfterLineLeadingMarker(out, j) ==
    LET ls == BlockStart(out, j)
        lead == SubSeq(out, ls + 1, j)
    IN  \/ Len(lead) \in 1..6 /\ \A k \in 1..Len(lead) : lead[k] = "#"
        \/ Len(lead) = 1 /\ lead[1] \in {"-", "*"}

\* The "\n" at offset i of in belongs to a run of three or more of them.
InLongNewlineRun(in, i) ==
    \E a \in 0..i : \E b \in (i + 1)..Len(in) :
        b - a >= 3 /\ \A k \in (a + 1)..b : in[k] = "\n"

\* out, from offset j on, is in from offset i on with nothing but such spaces
\* put in and such newlines taken out.
RECURSIVE OnlySpacesInNewlinesOut(_, _, _, _)
OnlySpacesInNewlinesOut(in, i, out, j) ==
    IF i = Len(in) /\ j = Len(out) THEN TRUE
    ELSE \/ /\ i < Len(in) /\ j < Len(out)
            /\ in[i + 1] = out[j + 1]
            /\ OnlySpacesInNewlinesOut(in, i + 1, out, j + 1)
         \/ /\ j < Len(out)
            /\ out[j + 1] = " "
            /\ AfterLineLeadingMarker(out, j)
            /\ OnlySpacesInNewlinesOut(in, i, out, j + 1)
         \/ /\ i < Len(in)
            /\ in[i + 1] = "\n"
            /\ InLongNewlineRun(in, i)
            /\ OnlySpacesInNewlinesOut(in, i + 1, out, j)

\* C17: whatever the selection, Beautify Document gives the buffer it got
\* with nothing changed but single spaces put directly after a line-leading run
\* of one to six "#" or a line-leading "-" or "*", and newlines taken out of
\* runs of three or more; all other characters keep their sequence.
C17_BeautifyKeepsContent ==
    tlast.act = "beautifyMarkdown" =>
        OnlySpacesInNewlinesOut(tlast.pre.value, 0, value, 0)

\* Headings, list items and blank lines beautified under a selection.
C17_Witness ==
    /\ tlast.act = "beautifyMarkdown"
    /\ tlast.pre.selectionStart < tlast.pre.selectionEnd
    /\ tlast.pre.value = <<"#", "a", "\n", "\n", "\n", "\n", "-", "b", "\n",
            "*", "c", "\n", "#", "#", " ", "d">>
    /\ value = <<"#", " ", "a", "\n", "\n", "-", " ", "b", "\n", "*", " ",
            "c", "\n", "#", "#", " ", "d">>

----------------------------------------------------------------------------
\* Claims about the exports

\* The files export k has saved.
SavedBy(k) == {n \in 1..Len(downloads) : downloads[n].export = k}

\* C18: for a raster of width w and height h the saved PDF has exactly one
\* page and the image at the origin, 210 mm wide and contentHeight = h * 210 / w
\* high; the page is 210 x 297 mm when contentHeight <= 297 and
\* 210 x contentHeight when contentHeight > 297, so the image fits in the page.
C18_PdfPageGeometry ==
    \A n \in 1..Len(downloads) :
        downloads[n].kind = "pdf" =>
            LET w == exports[downloads[n].export].raster.width
                h == exports[downloads[n].export].raster.height
                image == downloads[n].image
                page == downloads[n].pages[1]
            IN  /\ Len(downloads[n].pages) = 1
                /\ image.x = 0 /\ image.y = 0
                /\ image.width = <<210, 1>>
                /\ image.height[1] * w = h * 210 * image.height[2]
                /\ page.width = <<210, 1>>
                /\ IF h * 210 <= 297 * w THEN page.height = <<297, 1>>
                   ELSE page.height = image.height
                /\ RatLeq(image.height, page.height)

\* Two PDFs saved: one on a standard page, one on a higher page of its own.
C18_Witness ==
    /\ \E n \in 1..Len(downloads) :
          /\ downloads[n].kind = "pdf"
          /\ downloads[n].pages[1].height = <<297, 1>>
          /\ exports[downloads[n].export].raster = [width |-> 800, height |-> 600]
    /\ \E n \in 1..Len(downloads) :
          /\ downloads[n].kind = "pdf"
          /\ downloads[n].pages[1].height = <<5943, 20>>

\* C19: a PDF export in which the capture, the loading of the captured image,
\* the assembly or the save failed has offered the user the print dialog, has
\* printed only if the user accepted, has saved no file and has left the
\* document as it was; an image export that failed has told the user and has
\* saved no file.
C19_FailedExportFallsBack ==
    \A k \in 1..Len(exports) :
        exports[k].failure # "none" =>
            /\ SavedBy(k) = {}
            /\ value = exports[k].buffer
            /\ exports[k].format = "image" => exports[k].alerted
            /\ exports[k].format = "pdf" =>
                  /\ exports[k].offered
                  /\ exports[k].printed => exports[k].accepted

\* C20: an HTML export whose fetch or conversion of a blob: image failed
\* leaves that image with its reference, still converts every other blob: image
\* to a data: URL, one at a time in document order, and still saves the
\* document; the live preview is never modified.
C20_HtmlExportToleratesFailedImage ==
    \A k \in 1..Len(exports) :
        exports[k].format = "html" =>
            LET t == exports[k]
                settled(j) == t.pc = "done" \/ j - 1 < t.i
            IN  /\ preview = t.live
                /\ Len(t.clone) = Len(preview)
                /\ \A j \in 1..Len(preview) :
                      t.clone[j] =
                          IF preview[j].scheme = "blob" /\ settled(j)
                             /\ (j - 1) \notin t.failed
                          THEN Img("data", preview[j].id)
                          ELSE preview[j]
                /\ t.pc \in {"done", "fetch", "blob", "base64"}
                /\ t.pc # "done" => SavedBy(k) = {} /\ preview[t.i + 1].scheme = "blob"
                /\ t.pc = "done" =>
                      \E n \in 1..Len(downloads) :
                          /\ SavedBy(k) = {n}
                          /\ downloads[n].kind = "html"
                          /\ downloads[n].images = t.clone

\* A document saved with its first pasted image unresolved and its second
\* one embedded.
C20_Witness ==
    \E k \in 1..Len(exports) :
        /\ exports[k].format = "html"
        /\ exports[k].pc = "done"
        /\ exports[k].failed = {0}
        /\ Len(preview) = 2
        /\ exports[k].clone = <<Img("blob", 1), Img("data", 2)>>
        /\ SavedBy(k) # {}

\* The exports that have neither completed nor failed.
InFlight == {k \in 1..Len(exports) : exports[k].pc # "done"}

\* C21: at most one export is in flight at any time: an export requested
\* while an earlier one has not yet completed or failed is rejected, or waits
\* until that one has finished.
C21_OneExportInFlight == Cardinality(InFlight) <= 1

----------------------------------------------------------------------------
\* Claims about the AI actions

\* C22: when the remote text-transform call fails, for want of a credential or
\* by a fault of the call, the buffer is unchanged, the user gets a message and
\* the processing flag is false again; when it succeeds the buffer becomes the
\* old buffer + "\n\n" + result for the Expand action and the result for every
\* other action, and an empty result leaves the buffer unchanged.
C22_AiActionOutcome ==
    /\ alast.act = "failed" =>
          /\ value = alast.pre
          /\ aiAlert # ""
          /\ ~isProcessingAi
    /\ alast.act = "resolved" =>
          /\ ~isProcessingAi
          /\ value = IF alast.result = <<>> THEN alast.pre
                     ELSE IF alast.action = "Continue Writing"
                     THEN alast.pre \o <<"\n", "\n">> \o alast.result
                     ELSE alast.result

\* The Expand action answered for a buffer that is not empty, in a session in
\* which an earlier action failed.
C22_Witness ==
    /\ alast.act = "resolved"
    /\ alast.action = "Continue Writing"
    /\ alast.pre = <<"a">>
    /\ value = <<"a", "\n", "\n", "r">>
    /\ aiAlert # ""

----------------------------------------------------------------------------
\* Claims about the table of contents

\* The lines of the buffer that are one to six '#', white space and a text.
HeadingLines ==
    LET lines == split(value)
        isHeadingLine(k) ==
            LET h == runOf(lines[k], 0, "#")
            IN  /\ h \in 1..6
                /\ spaceRun(lines[k], h) > 0
                /\ h + spaceRun(lines[k], h) < Len(lines[k])
    IN  joinWith([k \in 1..Len(lines) |->
                     IF isHeadingLine(k) THEN <<lines[k]>> ELSE <<>>], <<>>)

\* C30: for every heading line of the buffer (one to six '#', white space, a
\* text) the header record has the number of '#' as its level and, as its id,
\* the anchor id the preview gives the rendered heading of that text; so a
\* click on a header in the sidebar always finds its target.
C30_HeaderIdIsPreviewAnchor ==
    /\ Len(headers) = Len(HeadingLines)
    /\ Len(renderedHeadings(value)) = Len(HeadingLines)
    /\ \A k \in 1..Len(headers) :
          /\ headers[k].level = runOf(HeadingLines[k], 0, "#")
          /\ headers[k].id = renderedHeadings(value)[k].id
    /\ hlast.act = "scrollToHeader" => hlast.element = hlast.header + 1

----------------------------------------------------------------------------
\* Claims about the scroll synchroniser

\* The last step ran handleScroll for pane slast.pane and took the early return.
Suppressed ==
    /\ slast.act = "scroll"
    /\ slast.pre.isScrollingRef = Other(slast.pane)

\* The last step ran handleScroll for pane slast.pane past the early return.
Synchronised ==
    /\ slast.act = "scroll"
    /\ slast.pre.isScrollingRef \in {"null", slast.pane}

PreRange(p) == slast.pre.scrollHeight[p] - slast.pre.clientHeight[p]

\* C6: while one pane holds the lock, a scroll event from the other pane changes
\* no scroll offset, not the lock owner and not the cooldown; and the event
\* queued by a programmatic offset write never moves any offset (no ping-pong).
C6_OtherPaneIgnoredWhileLocked ==
    /\ Suppressed =>
          /\ scrollTop = slast.pre.scrollTop
          /\ isScrollingRef = slast.pre.isScrollingRef
          /\ scrollTimeout = slast.pre.scrollTimeout
    /\ (slast.act = "scroll" /\ slast.pre.scrollEvent[slast.pane] = "echo") =>
          scrollTop = slast.pre.scrollTop

\* A user's scroll of the other pane was ignored during the cooldown, although
\* the two panes were not at the same ratio.
C6_Witness ==
    /\ Suppressed
    /\ slast.pre.scrollEvent[slast.pane] = "user"
    /\ slast.pre.scrollTimeout.left < CooldownTicks
    /\ PreRange("editor") > 0
    /\ PreRange("preview") > 0
    /\ scrollTop["editor"][1] * scrollTop["preview"][2] * PreRange("preview")
          # scrollTop["preview"][1] * scrollTop["editor"][2] * PreRange("editor")

\* A ratio clamped to [0, 1].
Clamp01(x) == IF RatLeq(<<1, 1>>, x) THEN <<1, 1>> ELSE x

\* C7: a scroll event from pane P that is not suppressed, P having a positive
\* scroll range, sets the other pane's offset to ratio * (other range) with
\* ratio = P.offset / (P range) clamped to [0, 1]; an editor of extent 1000,
\* viewport 500 at offset 250 drives a preview of extent 800, viewport 400 to 200.
C7_TargetOffsetIsRatioOfRange ==
    /\ (Synchronised /\ PreRange(slast.pane) > 0) =>
          scrollTop[Other(slast.pane)]
             = RatMul(Clamp01(RatDiv(slast.pre.scrollTop[slast.pane],
                                     PreRange(slast.pane))),
                      PreRange(Other(slast.pane)))
    /\ ( /\ Synchronised
         /\ slast.pane = "editor"
         /\ slast.pre.scrollHeight = [editor |-> 1000, preview |-> 800]
         /\ slast.pre.clientHeight = [editor |-> 500, preview |-> 400]
         /\ slast.pre.scrollTop["editor"] = <<250, 1>> ) =>
          scrollTop["preview"] = <<200, 1>>

\* The example: the editor at 250 of 500 has just driven the preview.
C7_Witness ==
    /\ Synchronised
    /\ slast.pane = "editor"
    /\ slast.pre.scrollHeight = [editor |-> 1000, preview |-> 800]
    /\ slast.pre.clientHeight = [editor |-> 500, preview |-> 400]
    /\ slast.pre.scrollTop["editor"] = <<250, 1>>
    /\ slast.pre.scrollTop["preview"] # scrollTop["preview"]

\* The lock as the last step found it and as it left it.
LockBefore == slast.pre.isScrollingRef
LockReleased == LockBefore # "null" /\ isScrollingRef = "null"

\* What every step does to the lock: only the timeout releases it, and releases
\* it to no pane; an event of the pane in control, or of either pane when none
\* is in control, gives that pane the lock and the full cooldown; a pane never
\* takes the lock from the other; the lock is never held without its timeout.
LockDiscipline ==
    /\ slast.act = "timeout" => isScrollingRef = "null"
    /\ LockReleased => slast.act = "timeout"
    /\ Synchronised =>
          /\ isScrollingRef = slast.pane
          /\ scrollTimeout = [armed |-> TRUE, left |-> CooldownTicks]
    /\ (LockBefore # "null" /\ isScrollingRef # "null") => isScrollingRef = LockBefore
    /\ isScrollingRef # "null" => scrollTimeout.armed

\* The user is scrolling or the content is being laid out again.
PanesMoved == slast.act \in {"user", "relayout"}

\* C29: the scroll lock always expires by itself: once the panes stop producing
\* scroll events the lock returns to "no pane in control" when the cooldown has
\* elapsed, with no explicit release, and a later scroll of either pane takes
\* control; each event of the pane in control restarts the cooldown; control
\* never passes from one pane to the other without the lock being released
\* in between.
C29_LockExpires ==
    /\ []LockDiscipline
    /\ <>[](~PanesMoved) => <>[](isScrollingRef = "null")

\* The cooldown has elapsed on a lock the preview held, the editor having been
\* driven away from its top.
C29_Witness ==
    /\ slast.act = "timeout"
    /\ LockBefore = "preview"
    /\ isScrollingRef = "null"
    /\ scrollTop["editor"] # <<0, 1>>

\* C28: a scroll event of a pane whose scrollable extent minus viewport extent
\* is not positive is skipped: the other pane's offset is left as it was.
C28_ZeroRangeSourceSkipped ==
    (slast.act = "scroll" /\ PreRange(slast.pane) <= 0) =>
        scrollTop[Other(slast.pane)] = slast.pre.scrollTop[Other(slast.pane)]

====
